---- MODULE Spec2Model ----
(***************************************************************************)
(* Cost-tracking price estimates of nodeconductor (cost_tracking/models.py) *)
(* as a state machine: the PriceEstimate table, the scope hierarchy, the    *)
(* clock, and one action per operation on the table.                        *)
(*                                                                          *)
(* Money is counted in cents (the code rounds to 2 decimals), a datetime is *)
(* [year, month, sec] with sec the seconds since the start of the month.    *)
(***************************************************************************)
EXTENDS Integers, Sequences, FiniteSets, TLC

VARIABLES
    estimates,   \* the PriceEstimate table: a set of rows
    deleted,     \* the scope objects that have been deleted
    clock,       \* index of the current instant (timezone.now() = Now)
    workers,     \* per worker: position and locals inside update_estimate
    last,        \* the last operation: [op, arg, ok] (history, for the claims)
    ops,         \* the number of operations run so far
    consumption, \* the ConsumptionDetails table: a set of rows
    pricelist    \* the DefaultPriceListItem and PriceListItem tables

vars == <<estimates, deleted, clock, workers, last, ops, consumption, pricelist>>

-----------------------------------------------------------------------------
(* Bounds of the model.                                                    *)

\* the number of operations of a run
MaxOps == 5
\* the number of runs of update_price_for_resource the workers start
MaxRuns == 4

Null == "null"

\* the price list tables, empty
NoPrices == [defaults |-> {}, items |-> {}]

-----------------------------------------------------------------------------
(* The structure: Customer -- Service/Project -- SPL -- Resource.          *)

Customers == {"c1"}
Services  == {"s1"}
Projects  == {"p1"}
Links     == {"l1"}
Resources == {"r1", "r2"}
Scopes    == Customers \cup Services \cup Projects \cup Links \cup Resources

ContentType(scope) ==
    IF scope \in Customers THEN "Customer"
    ELSE IF scope \in Services THEN "Service"
    ELSE IF scope \in Projects THEN "Project"
    ELSE IF scope \in Links THEN "ServiceProjectLink"
    ELSE "Resource"

\* the walk of get_ancestors: parents first, then the parents' ancestors
get_ancestors(scope) ==
    CASE scope = "r1" -> <<"l1", "s1", "p1", "c1">>
      [] scope = "r2" -> <<"l1", "s1", "p1", "c1">>
      [] scope = "l1" -> <<"s1", "p1", "c1">>
      [] scope \in Services \cup Projects -> <<"c1">>
      [] OTHER -> <<>>

SeqToSet(s) == {s[i] : i \in 1..Len(s)}

get_descendants(scope) == {d \in Scopes : scope \in SeqToSet(get_ancestors(d))}

\* PayableMixin.get_all_models(): the resource models
PayableModels == {"Resource"}

\* faulty variant: projects are editable too
get_editable_estimated_models_with_project ==
    PayableModels \cup {"ServiceProjectLink", "Project"}

get_editable_estimated_models == PayableModels \cup {"ServiceProjectLink"}

is_leaf_scope(scope) == ContentType(scope) \in PayableModels

-----------------------------------------------------------------------------
(* Time.                                                                   *)

IsLeap(year) == (year % 4 = 0 /\ year % 100 # 0) \/ year % 400 = 0

\* calendar.monthrange(year, month)[1]
DaysInMonth(year, month) ==
    IF month = 2 THEN (IF IsLeap(year) THEN 29 ELSE 28)
    ELSE IF month \in {4, 6, 9, 11} THEN 30 ELSE 31

\* the instants the clock takes, one per month: the 11th of the month, 12:00
Instants == <<[year |-> 2015, month |-> 12, sec |-> 10 * 86400 + 12 * 3600],
              [year |-> 2016, month |-> 1,  sec |-> 10 * 86400 + 12 * 3600]>>

\* timezone.now()
Now(k) == Instants[k]

\* resource.created: r1, r4, r5 and r6 at the very start of a month of 31, 29,
\* 28 and 30 days, r3 at 00:00 on the 15th of a month of 30 days, r2 on the
\* 6th of a month
Created(resource) ==
    CASE resource = "r1" -> [year |-> 2015, month |-> 12, sec |-> 0]
      [] resource = "r3" -> [year |-> 2015, month |-> 11, sec |-> 14 * 86400]
      [] resource = "r4" -> [year |-> 2016, month |-> 2, sec |-> 0]
      [] resource = "r5" -> [year |-> 2015, month |-> 2, sec |-> 0]
      [] resource = "r6" -> [year |-> 2015, month |-> 11, sec |-> 0]
      [] OTHER -> [year |-> 2015, month |-> 12, sec |-> 5 * 86400]

\* the monthly costs the backend reports, in cents
Costs == {100, 300}

\* the total a user enters for a manual estimate
ManualTotals == {700}

-----------------------------------------------------------------------------
(* Arithmetic of prorata_cost.                                             *)

\* <<quotient, remainder>> of (c * a) / m, by doubling, within 32 bits
RECURSIVE MulDiv(_, _, _)
MulDiv(c, a, m) ==
    IF c = 0 THEN <<0, 0>>
    ELSE LET h == MulDiv(c \div 2, a, m)
             n == 2 * h[2] + (c % 2) * (a % m)
         IN  <<2 * h[1] + (c % 2) * (a \div m) + n \div m, n % m>>

\* faulty variant: every month is taken to have 30 days
prorata_cost_thirty_days(monthly_cost, seconds, seconds_in_month) ==
    LET qr == MulDiv(monthly_cost, seconds, 30 * 86400)
    IN  IF 2 * qr[2] >= 30 * 86400 THEN qr[1] + 1 ELSE qr[1]

\* faulty variant: the day of the creation is not charged
prorata_cost_after_first_day(monthly_cost, seconds, seconds_in_month) ==
    LET charged == IF seconds >= 86400 THEN seconds - 86400 ELSE 0
        qr == MulDiv(monthly_cost, charged, seconds_in_month)
    IN  IF 2 * qr[2] >= seconds_in_month THEN qr[1] + 1 ELSE qr[1]

\* round(monthly_cost * seconds / seconds_in_month, 2), in cents, half away from zero
prorata_cost(monthly_cost, seconds, seconds_in_month) ==
    LET qr == MulDiv(monthly_cost, seconds, seconds_in_month)
    IN  IF 2 * qr[2] >= seconds_in_month THEN qr[1] + 1 ELSE qr[1]

-----------------------------------------------------------------------------
(* The PriceEstimate table.  A row:                                        *)
(*   [id, content_type, object_id, month, year, is_manually_input,         *)
(*    is_visible, total, consumed, leafs, details, txn]                    *)
(* object_id is the scope (Null once the link is nulled), leafs the set of *)
(* ids of the M2M relation, details the stored scope_name, txn the worker  *)
(* whose open transaction inserted the row (0: committed).  Primary keys   *)
(* are opaque: a row is named by the key it was created with and a         *)
(* counter that tells rows created with the same key apart.                *)

Row(rs, id) == CHOOSE r \in rs : r.id = id

Ids(rs) == {r.id : r \in rs}

NewId(rs, scope, month, year, manual) ==
    LET n == CHOOSE k \in 0..Cardinality(rs) :
                 /\ <<scope, year, month, manual, k>> \notin Ids(rs)
                 /\ \A j \in 0..(k - 1) : <<scope, year, month, manual, j>> \in Ids(rs)
    IN  <<scope, year, month, manual, n>>

\* the field defaults of the model (total 0, consumed 0, visible, no details, no leafs)
NewRow(rs, scope, month, year, manual, txn) ==
    [id                |-> NewId(rs, scope, month, year, manual),
     content_type      |-> ContentType(scope),
     object_id         |-> scope,
     month             |-> month,
     year              |-> year,
     is_manually_input |-> manual,
     is_visible        |-> TRUE,
     total             |-> 0,
     consumed          |-> 0,
     leafs             |-> {},
     details           |-> Null,
     txn               |-> txn]

\* faulty variant: the table has no uniqueness constraint
unique_together_missing(rs, row) == TRUE

\* Meta.unique_together: may `row` be inserted into rs?  (NULLs never collide.)
unique_together(rs, row) ==
    \/ row.object_id = Null
    \/ ~\E r \in rs : /\ r.content_type = row.content_type
                      /\ r.object_id = row.object_id
                      /\ r.month = row.month
                      /\ r.year = row.year
                      /\ r.is_manually_input = row.is_manually_input

\* objects.filter(scope=scope, month=month, year=year[, is_manually_input in manualIn])
Filter(rs, scope, month, year, manualIn) ==
    {r \in rs : /\ r.object_id = scope
                /\ r.content_type = ContentType(scope)
                /\ r.month = month
                /\ r.year = year
                /\ r.is_manually_input \in manualIn}

\* objects.filter(scope=scope)
FilterScope(rs, scope) ==
    {r \in rs : r.object_id = scope /\ r.content_type = ContentType(scope)}

Replace(rs, row) == {IF r.id = row.id THEN row ELSE r : r \in rs}

\* Model.delete(): the row goes, and with it its rows of the leafs relation
Delete(rs, id) ==
    {[r EXCEPT !.leafs = @ \ {id}] : r \in {x \in rs : x.id # id}}

\* objects.get_or_create(object_id, content_type, month, year[, is_manually_input]):
\* get() raises MultipleObjectsReturned on several matches; a miss creates the
\* row with the lookup values and the defaults, and an insert the constraint
\* refuses is answered by a second get().
get_or_create(rs, scope, month, year, manualIn) ==
    LET found == Filter(rs, scope, month, year, manualIn)
        manual == IF manualIn = {TRUE} THEN TRUE ELSE FALSE
        row == NewRow(rs, scope, month, year, manual, 0)
    IN  IF Cardinality(found) > 1
        THEN [rows |-> rs, id |-> Null, created |-> FALSE, error |-> "MultipleObjectsReturned"]
        ELSE IF Cardinality(found) = 1
        THEN [rows |-> rs, id |-> (CHOOSE r \in found : TRUE).id, created |-> FALSE, error |-> "none"]
        ELSE IF unique_together(rs, row)
        THEN [rows |-> rs \cup {row}, id |-> row.id, created |-> TRUE, error |-> "none"]
        ELSE [rows |-> rs, id |-> Null, created |-> FALSE, error |-> "IntegrityError"]

RECURSIVE SumTotal(_)
SumTotal(rs) ==
    IF rs = {} THEN 0
    ELSE LET r == CHOOSE x \in rs : TRUE IN r.total + SumTotal(rs \ {r})

RECURSIVE SumConsumed(_)
SumConsumed(rs) ==
    IF rs = {} THEN 0
    ELSE LET r == CHOOSE x \in rs : TRUE IN r.consumed + SumConsumed(rs \ {r})

\* self.leafs.all()
Leafs(rs, row) == {r \in rs : r.id \in row.leafs}

is_leaf(row) == row.object_id # Null /\ is_leaf_scope(row.object_id)

\* faulty variant: only total is summed again, consumed is left as it was
update_from_leaf_total_only(rs, id) ==
    LET self == Row(rs, id)
    IN  IF is_leaf(self) THEN rs
        ELSE Replace(rs, [self EXCEPT !.total = SumTotal(Leafs(rs, self))])

update_from_leaf(rs, id) ==
    LET self == Row(rs, id)
        leaf_estimates == Leafs(rs, self)
    IN  IF is_leaf(self) THEN rs
        ELSE Replace(rs, [self EXCEPT !.total = SumTotal(leaf_estimates),
                                      !.consumed = SumConsumed(leaf_estimates)])

\* faulty variant: the walk follows the service branch only, the project of
\* the link is passed over
RECURSIVE ancestors_loop_service_branch(_, _, _, _)
ancestors_loop_service_branch(rs, id, parents, i) ==
    IF i > Len(parents) THEN [rows |-> rs, ok |-> TRUE]
    ELSE IF ContentType(parents[i]) = "Project"
    THEN ancestors_loop_service_branch(rs, id, parents, i + 1)
    ELSE LET self == Row(rs, id)
             g == get_or_create(rs, parents[i], self.month, self.year, BOOLEAN)
         IN  IF g.error # "none" THEN [rows |-> rs, ok |-> FALSE]
             ELSE LET parent_estimate == Row(g.rows, g.id)
                      linked == IF is_leaf(self) /\ id \notin parent_estimate.leafs
                                THEN Replace(g.rows, [parent_estimate EXCEPT !.leafs = @ \cup {id}])
                                ELSE g.rows
                  IN  ancestors_loop_service_branch(update_from_leaf(linked, g.id), id,
                                                    parents, i + 1)

\* the loop of update_ancestors from the i-th parent on; an exception leaves
\* the table as the parents before it were written
RECURSIVE ancestors_loop(_, _, _, _)
ancestors_loop(rs, id, parents, i) ==
    IF i > Len(parents) THEN [rows |-> rs, ok |-> TRUE]
    ELSE LET self == Row(rs, id)
             g == get_or_create(rs, parents[i], self.month, self.year, BOOLEAN)
         IN  IF g.error # "none" THEN [rows |-> rs, ok |-> FALSE]
             ELSE LET parent_estimate == Row(g.rows, g.id)
                      linked == IF is_leaf(self) /\ id \notin parent_estimate.leafs
                                THEN Replace(g.rows, [parent_estimate EXCEPT !.leafs = @ \cup {id}])
                                ELSE g.rows
                  IN  ancestors_loop(update_from_leaf(linked, g.id), id, parents, i + 1)

\* self.scope is None for a row whose link was nulled: get_ancestors raises
update_ancestors(rs, id) ==
    LET self == Row(rs, id)
    IN  IF self.object_id = Null THEN [rows |-> rs, ok |-> FALSE]
        ELSE ancestors_loop(rs, id, get_ancestors(self.object_id), 1)

\* the loops of delete_estimates_for_resource over the parents' estimates
\* faulty variant: the leaf link is removed, the parent is not summed again
RECURSIVE resum_all_unlink_only(_, _, _)
resum_all_unlink_only(rs, ids, estimate_id) ==
    IF ids = {} THEN rs
    ELSE LET id == CHOOSE x \in ids : TRUE
         IN  resum_all_unlink_only(Replace(rs, [Row(rs, id) EXCEPT !.leafs = @ \ {estimate_id}]),
                                   ids \ {id}, estimate_id)

\* (parent_estimate.leafs.remove(estimate); parent_estimate.update_from_leaf())
RECURSIVE resum_all(_, _, _)
resum_all(rs, ids, estimate_id) ==
    IF ids = {} THEN rs
    ELSE LET id == CHOOSE x \in ids : TRUE
             removed == Replace(rs, [Row(rs, id) EXCEPT !.leafs = @ \ {estimate_id}])
         IN  resum_all(update_from_leaf(removed, id), ids \ {id}, estimate_id)

RECURSIVE delete_loop(_, _, _)
delete_loop(rs, resource, ids) ==
    IF ids = {} THEN rs
    ELSE LET id == CHOOSE x \in ids : TRUE
             estimate == Row(rs, id)
             removed == Delete(rs, id)
             parents == SeqToSet(get_ancestors(resource))
             qs == {r.id : r \in {x \in removed :
                        /\ x.object_id \in parents
                        /\ x.month = estimate.month
                        /\ x.year = estimate.year}}
         IN  delete_loop(resum_all(removed, qs, id), resource, ids \ {id})

delete_estimates_for_resource(rs, resource) ==
    delete_loop(rs, resource, Ids(FilterScope(rs, resource)))

-----------------------------------------------------------------------------
(* update_price_for_resource.                                              *)

None == <<>>

\* faulty variant: an estimate that exists is written whatever update_if_exists
update_estimate_overwrite(rs, resource, month, year, total, consumed, update_if_exists) ==
    LET g == get_or_create(rs, resource, month, year, {FALSE})
    IN  IF g.error # "none" THEN [rows |-> rs, ok |-> FALSE]
        ELSE [rows |-> Replace(g.rows,
                          [Row(g.rows, g.id) EXCEPT
                              !.consumed = IF consumed = None THEN total ELSE consumed[1],
                              !.total = total]),
              ok |-> TRUE]

\* faulty variant: the new figures are added to the ones the estimate holds
update_estimate_accumulate(rs, resource, month, year, total, consumed, update_if_exists) ==
    LET g == get_or_create(rs, resource, month, year, {FALSE})
    IN  IF g.error # "none" THEN [rows |-> rs, ok |-> FALSE]
        ELSE IF update_if_exists \/ g.created
        THEN [rows |-> Replace(g.rows,
                          [Row(g.rows, g.id) EXCEPT
                              !.consumed = @ + (IF consumed = None THEN total ELSE consumed[1]),
                              !.total = @ + total]),
              ok |-> TRUE]
        ELSE [rows |-> g.rows, ok |-> TRUE]

\* update_estimate(month, year, total, consumed=None, update_if_exists=True);
\* consumed is None or <<value>>
update_estimate(rs, resource, month, year, total, consumed, update_if_exists) ==
    LET g == get_or_create(rs, resource, month, year, {FALSE})
    IN  IF g.error # "none" THEN [rows |-> rs, ok |-> FALSE]
        ELSE IF update_if_exists \/ g.created
        THEN [rows |-> Replace(g.rows,
                          [Row(g.rows, g.id) EXCEPT
                              !.consumed = IF consumed = None THEN total ELSE consumed[1],
                              !.total = total]),
              ok |-> TRUE]
        ELSE [rows |-> g.rows, ok |-> TRUE]

\* date - relativedelta(months=+1), as far as month and year go
PreviousMonth(date) ==
    IF date.month = 1 THEN [year |-> date.year - 1, month |-> 12]
    ELSE [year |-> date.year, month |-> date.month - 1]

\* one call of update_estimate
Call(month, year, total, consumed, update_if_exists) ==
    [month |-> month, year |-> year, total |-> total, consumed |-> consumed,
     update_if_exists |-> update_if_exists]

\* faulty variant: the walk ends one month before it reaches the month after
\* the creation month
RECURSIVE previous_months_stops_early(_, _, _)
previous_months_stops_early(date, created, monthly_cost) ==
    IF \/ date.month = created.month /\ date.year = created.year
       \/ PreviousMonth(date).month = created.month /\ PreviousMonth(date).year = created.year
    THEN <<>>
    ELSE <<Call(date.month, date.year, monthly_cost, None, FALSE)>>
         \o previous_months_stops_early(PreviousMonth(date), created, monthly_cost)

\* the calls of the while loop over the months between now and the creation month
RECURSIVE previous_months(_, _, _)
previous_months(date, created, monthly_cost) ==
    IF date.month = created.month /\ date.year = created.year THEN <<>>
    ELSE <<Call(date.month, date.year, monthly_cost, None, FALSE)>>
         \o previous_months(PreviousMonth(date), created, monthly_cost)

\* faulty variant: consumed is counted from the start of the month even in
\* the month of the creation
estimate_calls_consumed_from_month_start(resource, monthly_cost, now, back_propagate_price) ==
    LET created == Created(resource)
        seconds_in_month == DaysInMonth(created.year, created.month) * 86400
        to_month_end == seconds_in_month - created.sec
    IN  IF created.month = now.month /\ created.year = now.year
        THEN <<Call(now.month, now.year,
                    prorata_cost(monthly_cost, to_month_end, seconds_in_month),
                    <<prorata_cost(monthly_cost, now.sec, seconds_in_month)>>,
                    TRUE)>>
        ELSE <<Call(now.month, now.year, monthly_cost,
                    <<prorata_cost(monthly_cost, now.sec, seconds_in_month)>>, TRUE)>>
             \o (IF back_propagate_price
                 THEN <<Call(created.month, created.year,
                             prorata_cost(monthly_cost, to_month_end, seconds_in_month),
                             None, FALSE)>>
                      \o previous_months(PreviousMonth(now), created, monthly_cost)
                 ELSE <<>>)

\* faulty variant: consumed of the current month is prorated by the length of
\* the current month
estimate_calls_current_month_length(resource, monthly_cost, now, back_propagate_price) ==
    LET created == Created(resource)
        seconds_in_month == DaysInMonth(created.year, created.month) * 86400
        to_month_end == seconds_in_month - created.sec
    IN  IF created.month = now.month /\ created.year = now.year
        THEN <<Call(now.month, now.year,
                    prorata_cost(monthly_cost, to_month_end, seconds_in_month),
                    <<prorata_cost(monthly_cost, now.sec - created.sec, seconds_in_month)>>,
                    TRUE)>>
        ELSE <<Call(now.month, now.year, monthly_cost,
                    <<prorata_cost(monthly_cost, now.sec,
                                   DaysInMonth(now.year, now.month) * 86400)>>, TRUE)>>
             \o (IF back_propagate_price
                 THEN <<Call(created.month, created.year,
                             prorata_cost(monthly_cost, to_month_end, seconds_in_month),
                             None, FALSE)>>
                      \o previous_months(PreviousMonth(now), created, monthly_cost)
                 ELSE <<>>)

\* the calls of update_estimate that update_price_for_resource makes, in order
estimate_calls(resource, monthly_cost, now, back_propagate_price) ==
    LET created == Created(resource)
        days_in_month == DaysInMonth(created.year, created.month)
        seconds_in_month == days_in_month * 86400
        to_month_end == seconds_in_month - created.sec
    IN  IF created.month = now.month /\ created.year = now.year
        THEN <<Call(now.month, now.year,
                    prorata_cost(monthly_cost, to_month_end, seconds_in_month),
                    <<prorata_cost(monthly_cost, now.sec - created.sec, seconds_in_month)>>,
                    TRUE)>>
        ELSE <<Call(now.month, now.year, monthly_cost,
                    <<prorata_cost(monthly_cost, now.sec, seconds_in_month)>>, TRUE)>>
             \o (IF back_propagate_price
                 THEN <<Call(created.month, created.year,
                             prorata_cost(monthly_cost, to_month_end, seconds_in_month),
                             None, FALSE)>>
                      \o previous_months(PreviousMonth(now), created, monthly_cost)
                 ELSE <<>>)

\* the calls from the i-th on; an exception ends the operation
RECURSIVE apply_calls(_, _, _, _)
apply_calls(rs, resource, calls, i) ==
    IF i > Len(calls) THEN [rows |-> rs, ok |-> TRUE]
    ELSE LET c == calls[i]
             u == update_estimate(rs, resource, c.month, c.year, c.total, c.consumed,
                                  c.update_if_exists)
         IN  IF ~u.ok THEN u ELSE apply_calls(u.rows, resource, calls, i + 1)

\* outcome: what the backend lookup and get_monthly_cost_estimate do
BackendOutcomes == {"cost", "ServiceBackendNotImplemented", "ServiceBackendError"}

\* faulty variant: a backend error is raised to the caller
update_price_for_resource_raising(rs, resource, outcome, monthly_cost, now, back_propagate_price) ==
    IF outcome = "ServiceBackendNotImplemented" THEN [rows |-> rs, ok |-> TRUE]
    ELSE IF outcome = "ServiceBackendError" THEN [rows |-> rs, ok |-> FALSE]
    ELSE apply_calls(rs, resource,
                     estimate_calls(resource, monthly_cost, now, back_propagate_price), 1)

update_price_for_resource(rs, resource, outcome, monthly_cost, now, back_propagate_price) ==
    IF outcome # "cost" THEN [rows |-> rs, ok |-> TRUE]
    ELSE apply_calls(rs, resource,
                     estimate_calls(resource, monthly_cost, now, back_propagate_price), 1)

-----------------------------------------------------------------------------
(* The estimates API (create, update, delete by a caller) and the deletion *)
(* of scope objects.                                                       *)

\* the (year, month) periods the clock passes through
Periods == {[year |-> Now(k).year, month |-> Now(k).month] : k \in 1..Len(Instants)}

ScopeName(scope) == scope

\* POST: a manual estimate for an editable scope; the automatic estimate of
\* the same period is hidden
api_create(rs, scope, month, year, total) ==
    LET row == [NewRow(rs, scope, month, year, TRUE, 0) EXCEPT !.total = total]
        hidden == {IF r \in Filter(rs, scope, month, year, {FALSE})
                   THEN [r EXCEPT !.is_visible = FALSE] ELSE r : r \in rs}
    IN  IF ContentType(scope) \notin get_editable_estimated_models
        THEN [rows |-> rs, ok |-> FALSE]
        ELSE IF ~unique_together(rs, row) THEN [rows |-> rs, ok |-> FALSE]
        ELSE [rows |-> hidden \cup {row}, ok |-> TRUE]

\* faulty variant: any estimate can be updated
api_update_any(rs, id, total) ==
    [rows |-> Replace(rs, [Row(rs, id) EXCEPT !.total = total]), ok |-> TRUE]

\* PATCH: only a manual estimate, and only its total
api_update(rs, id, total) ==
    LET row == Row(rs, id)
    IN  IF ~row.is_manually_input THEN [rows |-> rs, ok |-> FALSE]
        ELSE [rows |-> Replace(rs, [row EXCEPT !.total = total]), ok |-> TRUE]

\* faulty variant: the automatic estimate stays hidden
api_delete_keeps_hidden(rs, id) ==
    IF ~Row(rs, id).is_manually_input THEN [rows |-> rs, ok |-> FALSE]
    ELSE [rows |-> Delete(rs, id), ok |-> TRUE]

\* DELETE: only a manual estimate; the automatic estimate of the same
\* period is shown again
api_delete(rs, id) ==
    LET row == Row(rs, id)
        removed == Delete(rs, id)
        shown == {IF /\ r.object_id = row.object_id
                     /\ r.content_type = row.content_type
                     /\ r.month = row.month
                     /\ r.year = row.year
                     /\ ~r.is_manually_input
                  THEN [r EXCEPT !.is_visible = TRUE] ELSE r : r \in removed}
    IN  IF ~row.is_manually_input THEN [rows |-> rs, ok |-> FALSE]
        ELSE [rows |-> shown, ok |-> TRUE]

RECURSIVE DeleteAll(_, _)
DeleteAll(rs, ids) ==
    IF ids = {} THEN rs
    ELSE LET id == CHOOSE x \in ids : TRUE IN DeleteAll(Delete(rs, id), ids \ {id})

\* faulty variant: the estimates of every deleted scope are deleted
scope_deletion_cascade(rs, gone) ==
    DeleteAll(rs, {r.id : r \in {x \in rs : x.object_id \in gone}})

\* the scope objects `gone` are deleted: a customer's estimates are deleted,
\* the estimates of the other scopes keep the scope's name and lose the link
scope_deletion(rs, gone) ==
    LET kept == DeleteAll(rs, {r.id : r \in {x \in rs : x.object_id \in gone \cap Customers}})
    IN  {IF r.object_id \in gone
         THEN [r EXCEPT !.details = ScopeName(r.object_id), !.object_id = Null]
         ELSE r : r \in kept}

-----------------------------------------------------------------------------
(* The state machine.                                                      *)

Workers == {1, 2}

\* a worker outside update_price_for_resource; inside it: the resource, the
\* calls of update_estimate to make and the one being made, the row it got,
\* whether it created it, whether its insert was refused by the constraint
IdleWorker == [pc |-> "idle", resource |-> Null, calls |-> <<>>, i |-> 0,
               id |-> Null, created |-> FALSE, lost |-> FALSE]

Init ==
    /\ estimates = {}
    /\ deleted = {}
    /\ clock = 1
    /\ workers = [w \in Workers |-> IdleWorker]
    /\ last = [op |-> "init", arg |-> None, ok |-> TRUE]
    /\ ops = 0
    /\ pricelist = NoPrices
    /\ consumption = {}

\* one more operation of the run
Step == ops < MaxOps /\ ops' = ops + 1

Tick ==
    /\ Step
    /\ clock < Len(Instants)
    /\ clock' = clock + 1
    /\ last' = [op |-> "tick", arg |-> None, ok |-> TRUE]
    /\ UNCHANGED <<estimates, deleted, workers, consumption, pricelist>>

UpdatePriceForResource(resource, outcome, monthly_cost, back_propagate_price) ==
    /\ Step
    /\ resource \notin deleted
    /\ LET u == update_price_for_resource(estimates, resource, outcome, monthly_cost,
                                          Now(clock), back_propagate_price)
       IN  /\ estimates' = u.rows
           /\ last' = [op |-> "update_price_for_resource",
                       arg |-> <<resource, outcome>>, ok |-> u.ok]
    /\ UNCHANGED <<deleted, clock, workers, consumption, pricelist>>

UpdateAncestors(id) ==
    /\ Step
    /\ LET u == update_ancestors(estimates, id)
       IN  /\ estimates' = u.rows
           /\ last' = [op |-> "update_ancestors", arg |-> <<id>>, ok |-> u.ok]
    /\ UNCHANGED <<deleted, clock, workers, consumption, pricelist>>

DeleteEstimatesForResource(resource) ==
    /\ Step
    /\ resource \notin deleted
    /\ estimates' = delete_estimates_for_resource(estimates, resource)
    /\ last' = [op |-> "delete_estimates_for_resource",
                arg |-> <<resource, Cardinality(FilterScope(estimates, resource))>>,
                ok |-> TRUE]
    /\ UNCHANGED <<deleted, clock, workers, consumption, pricelist>>

ApiCreate(scope, period, total) ==
    /\ Step
    /\ scope \notin deleted
    /\ LET u == api_create(estimates, scope, period.month, period.year, total)
       IN  /\ estimates' = u.rows
           /\ last' = [op |-> "api_create",
                       arg |-> <<scope, period.year, period.month>>, ok |-> u.ok]
    /\ UNCHANGED <<deleted, clock, workers, consumption, pricelist>>

ApiUpdate(id, total) ==
    /\ Step
    /\ LET u == api_update(estimates, id, total)
       IN  /\ estimates' = u.rows
           /\ last' = [op |-> "api_update", arg |-> <<id>>, ok |-> u.ok]
    /\ UNCHANGED <<deleted, clock, workers, consumption, pricelist>>

ApiDelete(id) ==
    /\ Step
    /\ LET u == api_delete(estimates, id)
       IN  /\ estimates' = u.rows
           /\ last' = [op |-> "api_delete", arg |-> <<id>>, ok |-> u.ok]
    /\ UNCHANGED <<deleted, clock, workers, consumption, pricelist>>

DeleteScope(scope) ==
    /\ Step
    /\ scope \notin deleted
    /\ LET gone == ({scope} \cup get_descendants(scope)) \ deleted
       IN  /\ estimates' = scope_deletion(estimates, gone)
           /\ deleted' = deleted \cup gone
    /\ last' = [op |-> "scope_deletion", arg |-> <<scope>>, ok |-> TRUE]
    /\ UNCHANGED <<clock, workers, consumption, pricelist>>

-----------------------------------------------------------------------------
(* update_price_for_resource run by concurrent workers.  Each call of      *)
(* update_estimate is one transaction (READ COMMITTED): the get of         *)
(* get_or_create, the insert after a miss, then the save and the commit.   *)

\* the rows a worker's transaction reads: the committed ones and its own
Seen(w) == {r \in estimates : r.txn \in {0, w}}

WorkerBegin(w, resource, monthly_cost, back_propagate_price) ==
    /\ ops < MaxRuns
    /\ ops' = ops + 1
    /\ workers[w].pc = "idle"
    /\ resource \notin deleted
    /\ workers' = [workers EXCEPT ![w] =
           [IdleWorker EXCEPT
               !.pc = "get",
               !.resource = resource,
               !.calls = estimate_calls(resource, monthly_cost, Now(clock),
                                        back_propagate_price),
               !.i = 1]]
    /\ UNCHANGED <<estimates, deleted, clock, last, consumption, pricelist>>

WorkerGet(w) ==
    /\ workers[w].pc = "get"
    /\ LET me == workers[w]
           c == me.calls[me.i]
           found == Filter(Seen(w), me.resource, c.month, c.year, {FALSE})
       IN  IF Cardinality(found) > 1
           THEN /\ workers' = [workers EXCEPT ![w].pc = "idle"]
                /\ last' = [op |-> "update_price_for_resource",
                            arg |-> <<me.resource, "cost">>, ok |-> FALSE]
           ELSE IF Cardinality(found) = 1
           THEN /\ workers' = [workers EXCEPT ![w].pc = "save",
                                              ![w].id = (CHOOSE r \in found : TRUE).id,
                                              ![w].created = FALSE]
                /\ UNCHANGED last
           ELSE /\ workers' = [workers EXCEPT ![w].pc = "insert"]
                /\ UNCHANGED last
    /\ UNCHANGED <<estimates, deleted, clock, ops, consumption, pricelist>>

\* the insert waits while the only rows in its way are uncommitted ones of
\* another transaction; refused by the constraint, get_or_create gets again
WorkerInsert(w) ==
    /\ workers[w].pc = "insert"
    /\ LET me == workers[w]
           c == me.calls[me.i]
           row == NewRow(estimates, me.resource, c.month, c.year, FALSE, w)
           found == Filter(Seen(w), me.resource, c.month, c.year, {FALSE})
       IN  /\ unique_together(estimates, row) \/ ~unique_together(Seen(w), row)
           /\ IF unique_together(estimates, row)
              THEN /\ estimates' = estimates \cup {row}
                   /\ workers' = [workers EXCEPT ![w].pc = "save",
                                                 ![w].id = row.id,
                                                 ![w].created = TRUE]
                   /\ UNCHANGED last
              ELSE IF Cardinality(found) = 1
              THEN /\ workers' = [workers EXCEPT ![w].pc = "save",
                                                 ![w].id = (CHOOSE r \in found : TRUE).id,
                                                 ![w].created = FALSE,
                                                 ![w].lost = TRUE]
                   /\ UNCHANGED <<estimates, last, pricelist>>
              ELSE /\ workers' = [workers EXCEPT ![w].pc = "idle"]
                   /\ last' = [op |-> "update_price_for_resource",
                               arg |-> <<me.resource, "cost">>, ok |-> FALSE]
                   /\ UNCHANGED estimates
    /\ UNCHANGED <<deleted, clock, ops, consumption, pricelist>>

WorkerSave(w) ==
    /\ workers[w].pc = "save"
    /\ LET me == workers[w]
           c == me.calls[me.i]
           estimate == Row(estimates, me.id)
           saved == IF c.update_if_exists \/ me.created
                    THEN Replace(estimates,
                             [estimate EXCEPT
                                 !.consumed = IF c.consumed = None THEN c.total
                                              ELSE c.consumed[1],
                                 !.total = c.total])
                    ELSE estimates
           done == me.i = Len(me.calls)
       IN  /\ estimates' = {IF r.txn = w THEN [r EXCEPT !.txn = 0] ELSE r : r \in saved}
           /\ workers' = [workers EXCEPT ![w].pc = IF done THEN "idle" ELSE "get",
                                         ![w].i = IF done THEN me.i ELSE me.i + 1]
           /\ last' = IF done
                      THEN [op |-> "update_price_for_resource",
                            arg |-> <<me.resource, "cost">>, ok |-> TRUE]
                      ELSE last
    /\ UNCHANGED <<deleted, clock, ops, consumption, pricelist>>

NextWorkers ==
    \/ Tick
    \/ \E w \in Workers, resource \in Resources, monthly_cost \in Costs,
          back_propagate_price \in BOOLEAN :
          WorkerBegin(w, resource, monthly_cost, back_propagate_price)
    \/ \E w \in Workers : WorkerGet(w)
    \/ \E w \in Workers : WorkerInsert(w)
    \/ \E w \in Workers : WorkerSave(w)

NextOps ==
    \/ Tick
    \/ \E resource \in Resources, outcome \in BackendOutcomes, monthly_cost \in Costs,
          back_propagate_price \in BOOLEAN :
          UpdatePriceForResource(resource, outcome, monthly_cost, back_propagate_price)
    \/ \E id \in Ids(estimates) : UpdateAncestors(id)
    \/ \E resource \in Resources : DeleteEstimatesForResource(resource)
    \/ \E scope \in Scopes, period \in Periods, total \in ManualTotals :
          ApiCreate(scope, period, total)
    \/ \E id \in Ids(estimates), total \in ManualTotals : ApiUpdate(id, total)
    \/ \E id \in Ids(estimates) : ApiDelete(id)

Next ==
    \/ NextOps
    \/ \E scope \in Scopes : DeleteScope(scope)

\* every operation, the deletion of scope objects included
Spec == Init /\ [][Next]_vars

\* the operations on estimates alone: no scope object is ever deleted
SpecOps == Init /\ [][NextOps]_vars

\* update_price_for_resource run by two workers at once
SpecWorkers == Init /\ [][NextWorkers]_vars

-----------------------------------------------------------------------------
(* update_price_for_resource over several months, for resources created   *)
(* in months of every length.                                              *)

\* the number of runs of update_price_for_resource in a run of the pricing
MaxCalls == 2

\* the resources that are priced
Machines == {"r1", "r3", "r4", "r5", "r6"}

\* the monthly costs the backend reports for them, in cents
MonthlyCosts == {100, 30000}

\* the instants the clock takes: 2015-11-20 12:00, 2015-12-11 12:00,
\* 2016-02-15 00:00, 2016-03-31 12:00
Moments == <<[year |-> 2015, month |-> 11, sec |-> 19 * 86400 + 12 * 3600],
             [year |-> 2015, month |-> 12, sec |-> 10 * 86400 + 12 * 3600],
             [year |-> 2016, month |-> 2,  sec |-> 14 * 86400],
             [year |-> 2016, month |-> 3,  sec |-> 30 * 86400 + 12 * 3600]>>

\* timezone.now() of the pricing
Today(k) == Moments[k]

\* a <= b for datetimes
NotAfter(a, b) ==
    \/ a.year < b.year
    \/ a.year = b.year /\ a.month < b.month
    \/ a.year = b.year /\ a.month = b.month /\ a.sec <= b.sec

Advance ==
    /\ clock < Len(Moments)
    /\ clock' = clock + 1
    /\ last' = [op |-> "tick", arg |-> None, ok |-> TRUE]
    /\ UNCHANGED <<estimates, deleted, workers, ops, consumption, pricelist>>

\* the inputs of the run of update_price_for_resource just before, if the
\* last operation was one
Previous ==
    IF last.op = "update_price_for_resource" THEN SubSeq(last.arg, 1, 4) ELSE None

\* a resource exists from its creation on (created is set when it is saved)
UpdatePrice(resource, outcome, monthly_cost, back_propagate_price) ==
    /\ ops < MaxCalls
    /\ ops' = ops + 1
    /\ NotAfter(Created(resource), Today(clock))
    /\ LET u == update_price_for_resource(estimates, resource, outcome, monthly_cost,
                                          Today(clock), back_propagate_price)
       IN  /\ estimates' = u.rows
           /\ last' = [op |-> "update_price_for_resource",
                       arg |-> <<resource, outcome, monthly_cost, back_propagate_price,
                                 Previous>>,
                       ok |-> u.ok]
    /\ UNCHANGED <<deleted, clock, workers, consumption, pricelist>>

NextEstimate ==
    \/ Advance
    \/ \E resource \in Machines, outcome \in BackendOutcomes, monthly_cost \in MonthlyCosts,
          back_propagate_price \in BOOLEAN :
          UpdatePrice(resource, outcome, monthly_cost, back_propagate_price)

\* update_price_for_resource as the months pass
SpecEstimate == Init /\ [][NextEstimate]_vars

-----------------------------------------------------------------------------
(* Properties.                                                             *)

SameKey(a, b) ==
    /\ a.content_type = b.content_type
    /\ a.object_id = b.object_id
    /\ a.month = b.month
    /\ a.year = b.year

Summed(rs, e) ==
    /\ e.total = SumTotal(Leafs(rs, e))
    /\ e.consumed = SumConsumed(Leafs(rs, e))

AncestorSet(scope) == SeqToSet(get_ancestors(scope))

\* C1: after a completed update_ancestors of a leaf estimate, every automatic
\* estimate of an ancestor of its scope for the same month and year has total
\* and consumed equal to the sums over its leafs.
C1_AncestorsSummed ==
    (last.op = "update_ancestors" /\ last.ok) =>
        LET self == Row(estimates, last.arg[1])
        IN  is_leaf(self) =>
                \A parent \in AncestorSet(self.object_id) :
                    \A e \in Filter(estimates, parent, self.month, self.year, {FALSE}) :
                        Summed(estimates, e)

\* a completed update_ancestors after which an ancestor sums two leafs
C1_Witness ==
    /\ last.op = "update_ancestors"
    /\ last.ok
    /\ is_leaf(Row(estimates, last.arg[1]))
    /\ \E e \in estimates :
           /\ e.object_id = "c1"
           /\ ~e.is_manually_input
           /\ Cardinality(e.leafs) = 2
           /\ last.arg[1] \in e.leafs
           /\ e.consumed > 0
           /\ e.total > e.consumed

\* C2: creating a manual estimate keeps the automatic estimate of the same
\* scope, month and year and hides it; deleting the manual estimate shows the
\* automatic estimate again.
C2_ManualOverride ==
    [][/\ (last'.op = "api_create" /\ last'.ok) =>
              \A r \in Filter(estimates, last'.arg[1], last'.arg[3], last'.arg[2], {FALSE}) :
                  \E r2 \in estimates' :
                      /\ r2.id = r.id
                      /\ SameKey(r2, r)
                      /\ ~r2.is_manually_input
                      /\ ~r2.is_visible
       /\ (last'.op = "api_delete" /\ last'.ok) =>
              LET manual == Row(estimates, last'.arg[1])
              IN  \A r \in estimates :
                      (SameKey(r, manual) /\ ~r.is_manually_input) =>
                          \E r2 \in estimates' : r2.id = r.id /\ r2.is_visible
      ]_vars

\* a manual estimate was created next to a priced automatic estimate, now hidden
C2_Witness ==
    /\ last.op = "api_create"
    /\ last.ok
    /\ \E r \in Filter(estimates, last.arg[1], last.arg[3], last.arg[2], {FALSE}) :
           ~r.is_visible /\ r.total > 0

\* C3: for each scope, month and year at most one estimate is visible.
C3_AtMostOneVisible ==
    \A scope \in Scopes, period \in Periods :
        Cardinality({r \in Filter(estimates, scope, period.month, period.year, BOOLEAN) :
                        r.is_visible}) <= 1

\* C4: there is at most one row for each (scope, month, year, is_manually_input).
C4_UniqueKey ==
    \A a \in estimates, b \in estimates :
        (SameKey(a, b) /\ a.is_manually_input = b.is_manually_input) => a = b

\* a second manual estimate for an editable scope and period was refused,
\* next to an automatic estimate of the same period
C4_Witness ==
    /\ last.op = "api_create"
    /\ ~last.ok
    /\ ContentType(last.arg[1]) = "Resource"
    /\ Cardinality(Filter(estimates, last.arg[1], last.arg[3], last.arg[2], BOOLEAN)) = 2

\* C5: under every interleaving of two workers running
\* update_price_for_resource there is at most one automatic row for each
\* resource, month and year, and a finished run leaves exactly one row for
\* each month it wrote.
C5_SingleRowUnderConcurrency ==
    /\ \A resource \in Resources, period \in Periods :
           Cardinality(Filter(estimates, resource, period.month, period.year, {FALSE})) <= 1
    /\ \A w \in Workers :
           (workers[w].pc = "idle" /\ workers[w].i > 0) =>
               \A k \in 1..Len(workers[w].calls) :
                   Cardinality(Filter(estimates, workers[w].resource,
                                      workers[w].calls[k].month,
                                      workers[w].calls[k].year, {FALSE})) = 1

\* both workers missed the row, one insert was refused, and both have finished
C5_Witness ==
    /\ \A w \in Workers : workers[w].pc = "idle" /\ workers[w].i > 0
    /\ \E w \in Workers : workers[w].lost
    /\ \E w \in Workers : workers[w].created
    /\ workers[1].resource = workers[2].resource

BothExist(rs, scope, month, year) ==
    /\ Filter(rs, scope, month, year, {TRUE}) # {}
    /\ \E a \in Filter(rs, scope, month, year, {FALSE}) : ~a.is_visible

Overridden(rs, scope, month, year) ==
    /\ \A a \in Filter(rs, scope, month, year, {FALSE}) : ~a.is_visible
    /\ \A m \in Filter(rs, scope, month, year, {TRUE}) : m.is_visible

\* C6: while a manual estimate and a hidden automatic estimate exist for a
\* scope, month and year, every update_ancestors that reaches the scope and
\* every update_price_for_resource of the scope completes, writes the
\* automatic estimate's total and consumed again, and leaves the automatic
\* estimate hidden and the manual one visible.
C6_SyncWhileOverridden ==
    [][/\ last'.op = "update_ancestors" =>
              LET self == Row(estimates, last'.arg[1])
              IN  self.object_id # Null =>
                      \A parent \in AncestorSet(self.object_id) :
                          BothExist(estimates, parent, self.month, self.year) =>
                              /\ last'.ok
                              /\ Overridden(estimates', parent, self.month, self.year)
                              /\ \A a \in Filter(estimates', parent, self.month,
                                                 self.year, {FALSE}) :
                                     Summed(estimates', a)
       /\ (last'.op = "update_price_for_resource" /\ last'.arg[2] = "cost") =>
              LET resource == last'.arg[1]
                  now == Now(clock)
              IN  BothExist(estimates, resource, now.month, now.year) =>
                      /\ last'.ok
                      /\ Overridden(estimates', resource, now.month, now.year)
                      /\ \E monthly_cost \in Costs :
                             LET c == estimate_calls(resource, monthly_cost, now, FALSE)[1]
                             IN  \A a \in Filter(estimates', resource, now.month,
                                                 now.year, {FALSE}) :
                                     a.total = c.total /\ a.consumed = c.consumed[1]
      ]_vars

\* C7: a caller's update or delete of an automatic estimate is refused and
\* changes nothing; only manual estimates are updated or deleted, and an
\* update never changes an estimate's scope.
C7_AutomaticReadOnly ==
    [][last'.op \in {"api_update", "api_delete"} =>
           LET target == Row(estimates, last'.arg[1])
           IN  /\ ~target.is_manually_input => (~last'.ok /\ estimates' = estimates)
               /\ last'.ok => target.is_manually_input
               /\ last'.op = "api_update" =>
                      \A r \in estimates :
                          \E r2 \in estimates' : r2.id = r.id /\ SameKey(r2, r)
      ]_vars

\* a refused delete of an automatic estimate, which is still there
C7_Witness ==
    /\ last.op = "api_delete"
    /\ ~last.ok
    /\ \E r \in estimates : r.id = last.arg[1] /\ ~r.is_manually_input /\ r.total > 0

\* C8: a manual estimate is created only for a resource or a
\* service-project-link: for a service-project-link without a manual estimate
\* for the period the creation succeeds and leaves a visible manual estimate,
\* for any other aggregate scope it is refused and creates no row.
C8_EditableScopes ==
    [][last'.op = "api_create" =>
           LET scope == last'.arg[1]
               year == last'.arg[2]
               month == last'.arg[3]
           IN  /\ ContentType(scope) \notin {"Resource", "ServiceProjectLink"} =>
                      (~last'.ok /\ estimates' = estimates)
               /\ ContentType(scope) = "ServiceProjectLink" =>
                      /\ Filter(estimates, scope, month, year, {TRUE}) = {} => last'.ok
                      /\ \E m \in Filter(estimates', scope, month, year, {TRUE}) :
                             m.is_visible
      ]_vars

\* a manual estimate was created for a service-project-link
C8_Witness ==
    /\ last.op = "api_create"
    /\ last.ok
    /\ ContentType(last.arg[1]) = "ServiceProjectLink"
    /\ \E m \in Filter(estimates, last.arg[1], last.arg[3], last.arg[2], {TRUE}) :
           m.is_visible

\* C9: when scope objects are deleted, each estimate of a deleted scope other
\* than a customer stays, with the scope's name in details, the link nulled
\* and total and consumed unchanged; the estimates of a deleted customer are
\* deleted.
C9_HistoricEstimates ==
    [][last'.op = "scope_deletion" =>
           \A r \in estimates :
               (r.object_id # Null /\ r.object_id \in deleted' \ deleted) =>
                   IF r.content_type = "Customer"
                   THEN r.id \notin Ids(estimates')
                   ELSE \E r2 \in estimates' :
                            /\ r2.id = r.id
                            /\ r2.details = ScopeName(r.object_id)
                            /\ r2.object_id = Null
                            /\ r2.total = r.total
                            /\ r2.consumed = r.consumed
      ]_vars

\* a resource was deleted and its priced estimate is kept as a historic row
C9_Witness ==
    /\ last.op = "scope_deletion"
    /\ last.arg[1] \in Resources
    /\ \E r \in estimates :
           /\ r.object_id = Null
           /\ r.content_type = "Resource"
           /\ r.details = last.arg[1]
           /\ r.total > 0

\* C10: delete_estimates_for_resource removes every estimate of the
\* resource; every estimate of an ancestor is still there, no leafs set holds
\* a removed estimate, and each ancestor estimate of a month the resource had
\* an estimate for has total and consumed equal to the sums over its leafs.
C10_DeleteEstimatesForResource ==
    [][last'.op = "delete_estimates_for_resource" =>
           LET resource == last'.arg[1]
               removed == FilterScope(estimates, resource)
           IN  /\ FilterScope(estimates', resource) = {}
               /\ \A r \in removed : r.id \notin Ids(estimates')
               /\ \A a \in estimates :
                      a.object_id \in AncestorSet(resource) => a.id \in Ids(estimates')
               /\ \A r \in estimates' : r.leafs \cap Ids(removed) = {}
               /\ \A a \in estimates' :
                      (/\ a.object_id \in AncestorSet(resource)
                       /\ \E r \in removed : r.month = a.month /\ r.year = a.year) =>
                          Summed(estimates', a)
      ]_vars

\* estimates of a resource were removed and an ancestor still sums another leaf
C10_Witness ==
    /\ last.op = "delete_estimates_for_resource"
    /\ last.arg[2] > 0
    /\ \E a \in estimates :
           /\ a.object_id \in AncestorSet(last.arg[1])
           /\ Cardinality(a.leafs) = 1
           /\ a.total > 0
           /\ Summed(estimates, a)

-----------------------------------------------------------------------------
(* Properties of update_price_for_resource as the months pass.             *)

SameMonth(a, b) == a.month = b.month /\ a.year = b.year

SecondsInMonth(date) == DaysInMonth(date.year, date.month) * 86400

\* the rows of rs that are not of the month of `date`
OtherMonths(rs, date) == {r \in rs : ~SameMonth(r, date)}

\* C11: when the resource was created in the current month and year, a run
\* of update_price_for_resource that got a cost leaves one automatic estimate
\* of the current month with total = the cost prorated over the time from the
\* creation to the end of the month and consumed = the cost prorated over the
\* time from the creation to now, and leaves the rows of every other month
\* as they were.
C11_CreatedThisMonth ==
    [][(last'.op = "update_price_for_resource" /\ last'.arg[2] = "cost") =>
           LET resource == last'.arg[1]
               monthly_cost == last'.arg[3]
               now == Today(clock)
               created == Created(resource)
               seconds_in_month == SecondsInMonth(created)
           IN  SameMonth(created, now) =>
                   /\ last'.ok
                   /\ Cardinality(Filter(estimates', resource, now.month, now.year,
                                         {FALSE})) = 1
                   /\ \A e \in Filter(estimates', resource, now.month, now.year, {FALSE}) :
                          /\ e.total = prorata_cost(monthly_cost,
                                                    seconds_in_month - created.sec,
                                                    seconds_in_month)
                          /\ e.consumed = prorata_cost(monthly_cost,
                                                       now.sec - created.sec,
                                                       seconds_in_month)
                   /\ OtherMonths(estimates', now) = OtherMonths(estimates, now)
      ]_vars

\* a resource created in the middle of the current month was priced: part of
\* the month is charged, and part of that is consumed
C11_Witness ==
    /\ last.op = "update_price_for_resource"
    /\ last.arg[2] = "cost"
    /\ SameMonth(Created(last.arg[1]), Today(clock))
    /\ Created(last.arg[1]).sec > 0
    /\ \E e \in Filter(estimates, last.arg[1], Today(clock).month, Today(clock).year,
                        {FALSE}) :
           /\ 0 < e.consumed
           /\ e.consumed < e.total
           /\ e.total < last.arg[3]

\* C12: when the resource was created in an earlier month than the current
\* one, a run of update_price_for_resource that got a cost leaves one
\* automatic estimate of the current month with total = the monthly cost and
\* consumed = the cost prorated over the time from the start of the current
\* month to now, the proration dividing by the seconds of the month of the
\* creation.
C12_CreatedEarlier ==
    [][(last'.op = "update_price_for_resource" /\ last'.arg[2] = "cost") =>
           LET resource == last'.arg[1]
               monthly_cost == last'.arg[3]
               now == Today(clock)
               created == Created(resource)
           IN  ~SameMonth(created, now) =>
                   /\ last'.ok
                   /\ Cardinality(Filter(estimates', resource, now.month, now.year,
                                         {FALSE})) = 1
                   /\ \A e \in Filter(estimates', resource, now.month, now.year, {FALSE}) :
                          /\ e.total = monthly_cost
                          /\ e.consumed = prorata_cost(monthly_cost, now.sec,
                                                       SecondsInMonth(created))
      ]_vars

\* a resource created in a month of 29 days was priced late in a month of 31
\* days: more than the month's cost is consumed
C12_Witness ==
    /\ last.op = "update_price_for_resource"
    /\ last.arg[2] = "cost"
    /\ ~SameMonth(Created(last.arg[1]), Today(clock))
    /\ DaysInMonth(Created(last.arg[1]).year, Created(last.arg[1]).month) = 29
    /\ DaysInMonth(Today(clock).year, Today(clock).month) = 31
    /\ \E e \in Filter(estimates, last.arg[1], Today(clock).month, Today(clock).year,
                        {FALSE}) :
           e.total = last.arg[3] /\ e.consumed > e.total

\* the resources created at the very start of a month
CreatedAtMonthStart == {m \in Machines : Created(m).sec = 0}

CreatedOnFifteenth ==
    {m \in Machines : /\ DaysInMonth(Created(m).year, Created(m).month) = 30
                      /\ Created(m).sec \div 86400 = 14}

\* the total of the month of the creation that a run in that month, with a
\* monthly cost of 300.00, leaves for each resource created on the 15th of a
\* month of 30 days
FifteenthTotals ==
    {e.total : e \in {r \in estimates :
        /\ last.op = "update_price_for_resource"
        /\ last.arg[2] = "cost"
        /\ last.arg[3] = 30000
        /\ last.arg[1] \in CreatedOnFifteenth
        /\ SameMonth(Created(last.arg[1]), Today(clock))
        /\ r \in Filter(estimates, last.arg[1], Today(clock).month, Today(clock).year,
                         {FALSE})}}

\* C14 as the scenario states it: for a resource created on the 15th of a
\* month of 30 days with a monthly cost of 300, a run in that month sets the
\* month's total to round(300 * 15/30, 2) = 150.00.
C14_ScenarioAsStated == \A total \in FifteenthTotals : total = 15000

\* C14: for a resource created on the 15th of a month of 30 days, at 00:00,
\* with a monthly cost of 300, a run in that month sets the month's total to
\* the cost prorated over the 16 days from the creation to the end of the
\* month: round(300 * 16/30, 2) = 160.00.
C14_FifteenthOfThirtyDayMonth ==
    \A total \in FifteenthTotals :
        Created(last.arg[1]).sec = 14 * 86400 => total = 16000

\* the resource created at 00:00 on the 15th of November was priced in
\* November at a monthly cost of 300.00
C14_Witness ==
    /\ FifteenthTotals # {}
    /\ Created(last.arg[1]).sec = 14 * 86400
    /\ \A total \in FifteenthTotals : 15000 < total /\ total < 30000

\* the count of months up to the month of `date`
MonthIndex(date) == date.year * 12 + date.month - 1

\* the months from the month of `created` to the month of `now`, inclusive
MonthsFromTo(created, now) ==
    {[year |-> i \div 12, month |-> (i % 12) + 1] : i \in MonthIndex(created)..MonthIndex(now)}

\* C15: with back_propagate_price = True and a resource created in an
\* earlier month, after update_price_for_resource there is exactly one
\* automatic estimate of the resource for every month from the month of the
\* creation to the current month; a past month that had no estimate gets
\* total = consumed = the prorated cost of the first, partial month (month of
\* the creation) or the monthly cost (months in between), and an estimate
\* that existed for a past month keeps its total and consumed whatever the
\* monthly cost is now.
C15_BackPropagation ==
    [][(/\ last'.op = "update_price_for_resource"
        /\ last'.arg[2] = "cost"
        /\ last'.arg[4]) =>
           LET resource == last'.arg[1]
               monthly_cost == last'.arg[3]
               now == Today(clock)
               created == Created(resource)
               seconds_in_month == SecondsInMonth(created)
           IN  ~SameMonth(created, now) =>
                   \A m \in MonthsFromTo(created, now) :
                       LET before == Filter(estimates, resource, m.month, m.year, {FALSE})
                           after == Filter(estimates', resource, m.month, m.year, {FALSE})
                       IN  /\ Cardinality(after) = 1
                           /\ (~SameMonth(m, now) /\ before = {}) =>
                                  \A e \in after :
                                      /\ e.total = IF SameMonth(m, created)
                                                   THEN prorata_cost(monthly_cost,
                                                            seconds_in_month - created.sec,
                                                            seconds_in_month)
                                                   ELSE monthly_cost
                                      /\ e.consumed = e.total
                           /\ (~SameMonth(m, now) /\ before # {}) => after = before
      ]_vars

\* a back-propagating run at a new monthly cost filled a month in between
\* and kept the estimate of an earlier month, written at the old cost
C15_Witness ==
    /\ last.op = "update_price_for_resource"
    /\ last.arg[2] = "cost"
    /\ last.arg[4]
    /\ LET resource == last.arg[1]
           now == Today(clock)
           created == Created(resource)
       IN  /\ MonthIndex(now) > MonthIndex(created) + 1
           /\ \E old \in Filter(estimates, resource, created.month, created.year, {FALSE}) :
                  /\ old.consumed < old.total
                  /\ old.total < prorata_cost(last.arg[3], SecondsInMonth(created) - created.sec,
                                              SecondsInMonth(created))
           /\ \E m \in MonthsFromTo(created, now) :
                  /\ ~SameMonth(m, created)
                  /\ ~SameMonth(m, now)
                  /\ \E e \in Filter(estimates, resource, m.month, m.year, {FALSE}) :
                         e.total = last.arg[3] /\ e.consumed = last.arg[3]

\* the last run of update_price_for_resource directly followed a run with
\* the same resource, backend answer, monthly cost and back_propagate_price,
\* at the same value of the clock
Repeated(l) ==
    /\ l.op = "update_price_for_resource"
    /\ l.arg[5] = SubSeq(l.arg, 1, 4)

\* C16: a run of update_price_for_resource that directly follows a run for
\* the same resource with the same clock value, the same monthly cost and
\* the same back_propagate_price leaves the table as the first run left it:
\* the same rows with the same total and consumed.
C16_Idempotent ==
    [][Repeated(last') => (last'.ok /\ estimates' = estimates)]_vars

\* a back-propagating run over three months or more was repeated
C16_Witness ==
    /\ Repeated(last)
    /\ last.arg[2] = "cost"
    /\ last.arg[4]
    /\ Cardinality(FilterScope(estimates, last.arg[1])) >= 3
    /\ \E e \in Filter(estimates, last.arg[1], Today(clock).month, Today(clock).year,
                        {FALSE}) :
           0 < e.consumed /\ e.consumed < e.total

\* the backend answers that give no cost: no backend registered or
\* not implemented, and a backend error
Failures == BackendOutcomes \ {"cost"}

\* C17: when the backend lookup or the backend signals not-implemented, and
\* when the backend raises a backend error, update_price_for_resource raises
\* nothing and leaves every estimate as it was; the run for the next
\* resource of a batch, directly after the failing one, completes and writes
\* that resource's estimate of the current month.
C17_BackendFailureIsolated ==
    [][last'.op = "update_price_for_resource" =>
           /\ last'.arg[2] \in Failures => (last'.ok /\ estimates' = estimates)
           /\ (/\ last'.arg[2] = "cost"
               /\ last'.arg[5] # None
               /\ last'.arg[5][2] \in Failures) =>
                  /\ last.ok
                  /\ last'.ok
                  /\ \E e \in Filter(estimates', last'.arg[1], Today(clock).month,
                                      Today(clock).year, {FALSE}) :
                         e.total \in {last'.arg[3],
                                      prorata_cost(last'.arg[3],
                                          SecondsInMonth(Created(last'.arg[1]))
                                              - Created(last'.arg[1]).sec,
                                          SecondsInMonth(Created(last'.arg[1])))}
      ]_vars

\* the backend failed with an error for one resource, and the run for
\* another resource directly after it wrote that resource's estimate
C17_Witness ==
    /\ last.op = "update_price_for_resource"
    /\ last.ok
    /\ last.arg[2] = "cost"
    /\ last.arg[5] # None
    /\ last.arg[5][2] = "ServiceBackendError"
    /\ last.arg[5][1] # last.arg[1]
    /\ FilterScope(estimates, last.arg[5][1]) = {}
    /\ \E e \in Filter(estimates, last.arg[1], Today(clock).month, Today(clock).year,
                        {FALSE}) :
           e.total = last.arg[3]

-----------------------------------------------------------------------------
(* ConsumptionDetails.  A row:                                             *)
(*   [price_estimate, configuration, last_update_time,                     *)
(*    consumed_before_update]                                              *)
(* price_estimate is the id of the estimate the details belong to; a JSON  *)
(* object (configuration, consumed_before_update) is a set of              *)
(* <<key, value>> pairs, one for each key.                                 *)

\* the number of calls of update_configuration in a run
MaxUpdates == 3

Keys(d) == {p[1] : p \in d}

\* d.get(k, default)
Get(d, k, default) == IF k \in Keys(d) THEN (CHOOSE p \in d : p[1] = k)[2] ELSE default

\* d[k] = v
Put(d, k, v) == {p \in d : p[1] # k} \cup {<<k, v>>}

\* the configurations a resource reports: consumable -> usage
Configurations ==
    {{<<"ram", 2048>>}, {<<"ram", 1024>>}, {<<"ram", 1024>>, <<"cores", 2>>}, {}}

\* the instants the clock takes: 2016-01-10 10:00:00, 60 minutes later,
\* 90 minutes and 30 seconds after that, 45 seconds after that, a month after
\* the first, a year after the first
UsageTimes == <<[year |-> 2016, month |-> 1, sec |-> 9 * 86400 + 10 * 3600],
                [year |-> 2016, month |-> 1, sec |-> 9 * 86400 + 11 * 3600],
                [year |-> 2016, month |-> 1, sec |-> 9 * 86400 + 12 * 3600 + 30 * 60 + 30],
                [year |-> 2016, month |-> 1, sec |-> 9 * 86400 + 12 * 3600 + 31 * 60 + 15],
                [year |-> 2016, month |-> 2, sec |-> 9 * 86400 + 10 * 3600],
                [year |-> 2017, month |-> 1, sec |-> 9 * 86400 + 10 * 3600]>>

\* the days from 2015-01-01 to the first day of a month
RECURSIVE DaysBefore(_)
DaysBefore(date) ==
    IF date.year <= 2015 /\ date.month = 1 THEN 0
    ELSE LET p == PreviousMonth(date)
         IN  DaysBefore(p) + DaysInMonth(p.year, p.month)

\* (a - b).total_seconds()
total_seconds(a, b) == (DaysBefore(a) - DaysBefore(b)) * 86400 + a.sec - b.sec

\* int(x / y): the quotient, truncated towards zero
TruncDiv(x, y) == IF x >= 0 THEN x \div y ELSE -((-x) \div y)

\* faulty variant: the minutes are rounded to the nearest
get_minutes_from_last_update_rounded(self, time) ==
    TruncDiv(total_seconds(time, self.last_update_time) + 30, 60)

\* self._get_minutes_from_last_update(time)
get_minutes_from_last_update(self, time) ==
    TruncDiv(total_seconds(time, self.last_update_time), 60)

\* faulty variant: the consumption since the last update replaces what was
\* recorded before
RECURSIVE consumed_loop_overwrite(_, _, _)
consumed_loop_overwrite(consumed_before_update, items, minutes_from_last_update) ==
    IF items = {} THEN consumed_before_update
    ELSE LET item == CHOOSE p \in items : TRUE
         IN  consumed_loop_overwrite(Put(consumed_before_update, item[1],
                                         item[2] * minutes_from_last_update),
                                     items \ {item}, minutes_from_last_update)

\* the loop of update_configuration over self.configuration.items()
RECURSIVE consumed_loop(_, _, _)
consumed_loop(consumed_before_update, items, minutes_from_last_update) ==
    IF items = {} THEN consumed_before_update
    ELSE LET item == CHOOSE p \in items : TRUE
             consumed_after_modification == item[2] * minutes_from_last_update
         IN  consumed_loop(Put(consumed_before_update, item[1],
                               Get(consumed_before_update, item[1], 0)
                                   + consumed_after_modification),
                           items \ {item}, minutes_from_last_update)

\* faulty variant: the month is checked before the configurations are compared
update_configuration_month_first(rs, self, new_configuration, now) ==
    IF now.month # Row(rs, self.price_estimate).month
    THEN [details |-> self, error |-> "ConsumptionDetailUpdateError"]
    ELSE [details |-> [self EXCEPT
                          !.consumed_before_update =
                              consumed_loop(@, self.configuration,
                                            get_minutes_from_last_update(self, now)),
                          !.configuration = new_configuration,
                          !.last_update_time = now],
          error |-> "none"]

\* faulty variant: the time is charged at the usage of the new configuration
update_configuration_new_usage(rs, self, new_configuration, now) ==
    IF new_configuration = self.configuration
    THEN [details |-> self, error |-> "none"]
    ELSE IF now.month # Row(rs, self.price_estimate).month
    THEN [details |-> self, error |-> "ConsumptionDetailUpdateError"]
    ELSE [details |-> [self EXCEPT
                          !.consumed_before_update =
                              consumed_loop(@, new_configuration,
                                            get_minutes_from_last_update(self, now)),
                          !.configuration = new_configuration,
                          !.last_update_time = now],
          error |-> "none"]

\* faulty variant: the consumption is recorded, the new configuration is not
update_configuration_keeps_configuration(rs, self, new_configuration, now) ==
    IF new_configuration = self.configuration
    THEN [details |-> self, error |-> "none"]
    ELSE IF now.month # Row(rs, self.price_estimate).month
    THEN [details |-> self, error |-> "ConsumptionDetailUpdateError"]
    ELSE [details |-> [self EXCEPT
                          !.consumed_before_update =
                              consumed_loop(@, self.configuration,
                                            get_minutes_from_last_update(self, now)),
                          !.last_update_time = now],
          error |-> "none"]

\* self.update_configuration(new_configuration) at timezone.now() = now;
\* rs is the PriceEstimate table
update_configuration(rs, self, new_configuration, now) ==
    IF new_configuration = self.configuration
    THEN [details |-> self, error |-> "none"]
    ELSE IF now.month # Row(rs, self.price_estimate).month
    THEN [details |-> self, error |-> "ConsumptionDetailUpdateError"]
    ELSE [details |-> [self EXCEPT
                          !.consumed_before_update =
                              consumed_loop(@, self.configuration,
                                            get_minutes_from_last_update(self, now)),
                          !.configuration = new_configuration,
                          !.last_update_time = now],
          error |-> "none"]

\* the details of a resource's estimate of the current month, with the
\* configuration the resource has then and nothing consumed before
InitUsage ==
    /\ clock = 1
    /\ LET estimate == NewRow({}, "r1", UsageTimes[1].month, UsageTimes[1].year, FALSE, 0)
       IN  /\ estimates = {estimate}
           /\ \E configuration \in Configurations :
                  consumption = {[price_estimate |-> estimate.id,
                                  configuration |-> configuration,
                                  last_update_time |-> UsageTimes[1],
                                  consumed_before_update |-> {}]}
    /\ deleted = {}
    /\ workers = [w \in Workers |-> IdleWorker]
    /\ last = [op |-> "init", arg |-> None, ok |-> TRUE]
    /\ ops = 0
    /\ pricelist = NoPrices

AdvanceUsage ==
    /\ clock < Len(UsageTimes)
    /\ clock' = clock + 1
    /\ last' = [op |-> "tick", arg |-> None, ok |-> TRUE]
    /\ UNCHANGED <<estimates, deleted, workers, ops, consumption, pricelist>>

UpdateConfiguration(self, new_configuration) ==
    /\ ops < MaxUpdates
    /\ ops' = ops + 1
    /\ LET u == update_configuration(estimates, self, new_configuration, UsageTimes[clock])
       IN  /\ consumption' = (consumption \ {self}) \cup {u.details}
           /\ last' = [op |-> "update_configuration",
                       arg |-> <<self.price_estimate, self.configuration, new_configuration>>,
                       ok |-> u.error = "none"]
    /\ UNCHANGED <<estimates, deleted, clock, workers, pricelist>>

NextUsage ==
    \/ AdvanceUsage
    \/ \E self \in consumption, new_configuration \in Configurations :
          UpdateConfiguration(self, new_configuration)

\* update_configuration as time passes
SpecUsage == InitUsage /\ [][NextUsage]_vars

-----------------------------------------------------------------------------
(* ConsumptionDetails.consumed.                                            *)

\* self._get_month_end(): the last second of the month of the estimate
get_month_end(rs, self) ==
    LET estimate == Row(rs, self.price_estimate)
    IN  [year |-> estimate.year, month |-> estimate.month,
         sec |-> DaysInMonth(estimate.year, estimate.month) * 86400 - 1]

\* self.consumed: consumed_before_update[consumable] raises KeyError for a
\* consumable it does not hold
consumed(rs, self) ==
    LET month_end == get_month_end(rs, self)
        minutes_from_last_update == get_minutes_from_last_update(self, month_end)
        consumables == Keys(self.configuration) \cup Keys(self.consumed_before_update)
    IN  IF consumables \subseteq Keys(self.consumed_before_update)
        THEN [value |-> {<<k, Get(self.configuration, k, 0) * minutes_from_last_update
                                 + Get(self.consumed_before_update, k, 0)>> :
                            k \in consumables},
              error |-> "none"]
        ELSE [value |-> {}, error |-> "KeyError"]

Consumed(self) ==
    /\ LET u == consumed(estimates, self)
       IN  last' = [op |-> "consumed", arg |-> <<self.price_estimate, u.value>>,
                    ok |-> u.error = "none"]
    /\ UNCHANGED <<estimates, deleted, clock, workers, ops, consumption, pricelist>>

NextConsumed ==
    \/ NextUsage
    \/ \E self \in consumption : Consumed(self)

\* update_configuration as time passes, and consumed read at any time
SpecConsumed == InitUsage /\ [][NextConsumed]_vars

-----------------------------------------------------------------------------
(* Consumables that leave the configuration while others enter it.         *)

\* the configurations of SpecUsage, and one with cores only
DroppedConfigurations == Configurations \cup {{<<"cores", 2>>}}

InitDropped ==
    /\ clock = 1
    /\ LET estimate == NewRow({}, "r1", UsageTimes[1].month, UsageTimes[1].year, FALSE, 0)
       IN  /\ estimates = {estimate}
           /\ \E configuration \in DroppedConfigurations :
                  consumption = {[price_estimate |-> estimate.id,
                                  configuration |-> configuration,
                                  last_update_time |-> UsageTimes[1],
                                  consumed_before_update |-> {}]}
    /\ deleted = {}
    /\ workers = [w \in Workers |-> IdleWorker]
    /\ last = [op |-> "init", arg |-> None, ok |-> TRUE]
    /\ ops = 0
    /\ pricelist = NoPrices

NextDropped ==
    \/ AdvanceUsage
    \/ \E self \in consumption, new_configuration \in DroppedConfigurations :
          UpdateConfiguration(self, new_configuration)
    \/ \E self \in consumption : Consumed(self)

SpecDropped == InitDropped /\ [][NextDropped]_vars

-----------------------------------------------------------------------------
(* The consumption details of a resource kept up to date: on every save of *)
(* a resource its consumables are read from its strategy and given to the  *)
(* details of its estimate of the current month.                           *)

\* the number of saves of resources in a run
MaxSaves == 3

\* the resources whose class has a strategy in registered_resources
Registered == {"r1"}

\* CostTrackingRegister.get_consumables(resource); reported is what the
\* strategy of the resource's class returns for it
get_consumables(resource, reported) ==
    IF resource \in Registered
    THEN [value |-> reported, error |-> "none"]
    ELSE [value |-> {}, error |-> "TypeError"]

\* a resource was saved (created or changed) at timezone.now() = now: the
\* estimate of the current month and its details are created if they are
\* not there, else the details are given the configuration
resource_saved(rs, cs, resource, reported, now) ==
    LET c == get_consumables(resource, reported)
        g == get_or_create(rs, resource, now.month, now.year, {FALSE})
        found == {d \in cs : d.price_estimate = g.id}
    IN  IF c.error # "none" \/ g.error # "none"
        THEN [rows |-> rs, details |-> cs, ok |-> FALSE]
        ELSE IF found = {}
        THEN [rows |-> g.rows,
              details |-> cs \cup {[price_estimate |-> g.id,
                                    configuration |-> c.value,
                                    last_update_time |-> now,
                                    consumed_before_update |-> {}]},
              ok |-> TRUE]
        ELSE LET self == CHOOSE d \in found : TRUE
                 u == update_configuration(g.rows, self, c.value, now)
             IN  [rows |-> g.rows,
                  details |-> (cs \ {self}) \cup {u.details},
                  ok |-> u.error = "none"]

SaveResource(resource, reported) ==
    /\ ops < MaxSaves
    /\ ops' = ops + 1
    /\ LET u == resource_saved(estimates, consumption, resource, reported, UsageTimes[clock])
       IN  /\ estimates' = u.rows
           /\ consumption' = u.details
           /\ last' = [op |-> "resource_saved", arg |-> <<resource, reported>>, ok |-> u.ok]
    /\ UNCHANGED <<deleted, clock, workers, pricelist>>

NextSaves ==
    \/ AdvanceUsage
    \/ \E resource \in Resources, reported \in Configurations :
          SaveResource(resource, reported)

\* resources are created and saved as time passes
SpecSaves == Init /\ [][NextSaves]_vars

-----------------------------------------------------------------------------
(* update_configuration called by concurrent workers.  Each worker holds   *)
(* its own instance of the details, loaded from the table when its call    *)
(* arrives; the method computes on the fields of that instance and writes  *)
(* all of them with save().  No lock is taken and no row is re-read.       *)

\* the number of calls of update_configuration the workers start
MaxLoads == 2

\* a worker outside update_configuration; inside it: the instance it loaded,
\* the configuration it was given and the position of its call in the order
\* of arrival
IdleCaller == [pc |-> "idle", self |-> Null, new_configuration |-> Null, arrived |-> 0]

InitCallers ==
    /\ clock = 1
    /\ LET estimate == NewRow({}, "r1", UsageTimes[1].month, UsageTimes[1].year, FALSE, 0)
       IN  /\ estimates = {estimate}
           /\ \E configuration \in Configurations :
                  consumption = {[price_estimate |-> estimate.id,
                                  configuration |-> configuration,
                                  last_update_time |-> UsageTimes[1],
                                  consumed_before_update |-> {}]}
    /\ deleted = {}
    /\ workers = [w \in Workers |-> IdleCaller]
    /\ last = [op |-> "init", arg |-> None, ok |-> TRUE]
    /\ ops = 0
    /\ pricelist = NoPrices

\* the call arrives: the worker has the details as they are stored now
CallerLoad(w, self, new_configuration) ==
    /\ ops < MaxLoads
    /\ ops' = ops + 1
    /\ workers[w].pc = "idle"
    /\ workers' = [workers EXCEPT ![w] =
           [pc |-> "loaded", self |-> self,
            new_configuration |-> new_configuration, arrived |-> ops + 1]]
    /\ last' = [op |-> "load", arg |-> <<w, new_configuration>>, ok |-> TRUE]
    /\ UNCHANGED <<estimates, deleted, clock, consumption, pricelist>>

\* the body of update_configuration on the worker's instance; save() writes
\* the instance over the stored row of the same primary key
CallerSave(w) ==
    /\ workers[w].pc = "loaded"
    /\ LET me == workers[w]
           u == update_configuration(estimates, me.self, me.new_configuration,
                                     UsageTimes[clock])
           saved == u.error = "none" /\ me.new_configuration # me.self.configuration
       IN  /\ consumption' =
                  IF saved
                  THEN {d \in consumption : d.price_estimate # me.self.price_estimate}
                           \cup {u.details}
                  ELSE consumption
           /\ last' = [op |-> "save", arg |-> <<w, me.new_configuration>>,
                       ok |-> u.error = "none"]
    /\ workers' = [workers EXCEPT ![w].pc = "idle"]
    /\ UNCHANGED <<estimates, deleted, clock, ops, pricelist>>

NextCallers ==
    \/ AdvanceUsage
    \/ \E w \in Workers, self \in consumption, new_configuration \in Configurations :
          CallerLoad(w, self, new_configuration)
    \/ \E w \in Workers : CallerSave(w)

\* update_configuration called by two workers at once
SpecCallers == InitCallers /\ [][NextCallers]_vars

-----------------------------------------------------------------------------
(* Price lists.  A default item prices one (item_type, key) for the        *)
(* resources of one model; an item of a service replaces the rate of one   *)
(* default item for the resources of that service.  Hourly rates are       *)
(* counted in 1/100000 (DecimalField with 5 decimal places), monthly rates *)
(* in cents, quantities in 1/1000, a monthly cost in 1/100000.             *)

\* the number of price list operations of a run
MaxItems == 2

\* the models of the resources
ResourceModels == {"Instance", "Volume"}

\* ContentType.objects.get_for_model(resource)
get_for_model(resource) == IF resource = "r1" THEN "Instance" ELSE "Volume"

\* resource.service_project_link.service
service_of(resource) ==
    CHOOSE service \in Services : service \in SeqToSet(get_ancestors(resource))

\* the services that can be given price list items: the service of the
\* structure and two services outside it, s2 of another type, s3 public
PricedServices == Services \cup {"s2", "s3"}

\* SupportedServices.is_public_service(service): the service's settings are
\* shared
is_public_service(service) == service = "s3"

\* SupportedServices.get_related_models(service)['resources']
related_resources(service) ==
    IF service = "s2" THEN {"Volume"} ELSE {"Instance", "Volume"}

\* the (item_type, key) of price list items
ItemKeys == {<<"flavor", "small">>, <<"storage", "1 GB">>}

\* hourly rates: 0.01389 and 1.00000
HourlyRates == {1389, 100000}

\* hours_in_month() of nodeconductor.core.utils: the hours of the current
\* month
hours_in_month(now) == 24 * DaysInMonth(now.year, now.month)

\* '%0.2f' % x, for x >= 0 in 1/100000: the digits before and after the
\* point.  x is a whole number of hours times a rate of 5 decimals, a multiple
\* of 8/100000, and never half-way between two cents.
format_2f(x) ==
    LET cents == (x + 500) \div 1000
    IN  [whole |-> cents \div 100, frac |-> cents % 100]

\* Decimal(val) of a string of format_2f, in cents
Decimal(val) == val.whole * 100 + val.frac

\* AbstractPriceListItem.monthly_rate
monthly_rate(self, now) == format_2f(self.value * hours_in_month(now))

RECURSIVE price_map_loop_default_only(_, _, _, _)
\* faulty variant: the items of the service are not looked at
price_map_loop_default_only(price_items, service_items, now, price_map) ==
    IF price_items = <<>>
    THEN price_map
    ELSE LET item == Head(price_items)
         IN  price_map_loop_default_only(
                 Tail(price_items), service_items, now,
                 Put(price_map, <<item.item_type, item.key>>,
                     Decimal(monthly_rate(item, now))))

RECURSIVE price_map_loop(_, _, _, _)
\* the loop of _get_price_map over the default items, in the order the
\* query returns them; service_items are the items of the resource's service
price_map_loop(price_items, service_items, now, price_map) ==
    IF price_items = <<>>
    THEN price_map
    ELSE LET item == Head(price_items)
             key == <<item.item_type, item.key>>
             service_item == {i \in service_items : i.default_price_list_item = item.id}
             val == IF service_item # {}
                    THEN monthly_rate(CHOOSE i \in service_item : TRUE, now)
                    ELSE monthly_rate(item, now)
         IN  price_map_loop(Tail(price_items), service_items, now,
                            Put(price_map, key, Decimal(val)))

\* the default items of the resource's model
price_items_of(tables, resource) ==
    {item \in tables.defaults : item.resource_content_type = get_for_model(resource)}

\* the orders in which a query without order_by can return the rows
Orders(rows) ==
    {order \in [1..Cardinality(rows) -> rows] :
        \A i, j \in 1..Cardinality(rows) : order[i] = order[j] => i = j}

\* cls._get_price_map(resource), the query returning price_items
get_price_map(tables, resource, price_items, now) ==
    price_map_loop(price_items,
                   {i \in tables.items : i.service = service_of(resource)},
                   now, {})

\* the lists get_used_items(resource) returns: (item type, item key, usage)
UsedItems ==
    {<<>>,
     << <<"flavor", "small", 1000>> >>,
     << <<"flavor", "small", 1000>>, <<"storage", "1 GB", 2500>> >>,
     << <<"flavor", "large", 1000>>, <<"storage", "1 GB", 2500>> >>}

\* Decimal(format(item_count, ".15g")) of a count in 1/1000: the count to 15
\* significant digits, which it has
format_15g(item_count) == item_count

RECURSIVE monthly_cost_loop_stops(_, _, _)
\* faulty variant: the first item without a price ends the computation
monthly_cost_loop_stops(price_map, used_items, monthly_cost) ==
    IF used_items = <<>>
    THEN monthly_cost
    ELSE LET key == <<Head(used_items)[1], Head(used_items)[2]>>
             value == Get(price_map, key, None)
         IN  IF key \notin Keys(price_map)
             THEN monthly_cost
             ELSE monthly_cost_loop_stops(
                      price_map, Tail(used_items),
                      monthly_cost + value * format_15g(Head(used_items)[3]))

RECURSIVE monthly_cost_loop(_, _, _)
\* the loop of get_monthly_cost_estimate over the used items; value is None
\* when the price map has no such key
monthly_cost_loop(price_map, used_items, monthly_cost) ==
    IF used_items = <<>>
    THEN monthly_cost
    ELSE LET key == <<Head(used_items)[1], Head(used_items)[2]>>
             value == Get(price_map, key, None)
         IN  monthly_cost_loop(
                 price_map, Tail(used_items),
                 IF key \notin Keys(price_map)
                 THEN monthly_cost
                 ELSE monthly_cost + value * format_15g(Head(used_items)[3]))

\* cls.get_monthly_cost_estimate(resource)
get_monthly_cost_estimate(tables, resource, price_items, used_items, now) ==
    monthly_cost_loop(get_price_map(tables, resource, price_items, now), used_items, 0)

\* faulty variant: the model of the default item is not compared
clean_any_model(tables, self) ==
    IF is_public_service(self.service) THEN "ValidationError" ELSE "none"

\* PriceListItem.clean()
clean(tables, self) ==
    IF is_public_service(self.service)
    THEN "ValidationError"
    ELSE LET default == CHOOSE d \in tables.defaults : d.id = self.default_price_list_item
         IN  IF default.resource_content_type \notin related_resources(self.service)
             THEN "ValidationError"
             ELSE "none"

\* unique_together = ('content_type', 'object_id', 'default_price_list_item')
validate_unique(tables, self) ==
    \A i \in tables.items :
        ~(i.service = self.service /\ i.default_price_list_item = self.default_price_list_item)

\* a default item is added (admin form, price list of the backend)
AddDefaultItem(resource_content_type, key, value) ==
    /\ ops < MaxItems
    /\ ops' = ops + 1
    /\ LET id == Cardinality(pricelist.defaults) + 1
       IN  /\ pricelist' = [pricelist EXCEPT !.defaults =
                  @ \cup {[id |-> id, resource_content_type |-> resource_content_type,
                           item_type |-> key[1], key |-> key[2], value |-> value]}]
           /\ last' = [op |-> "add_default", arg |-> id, ok |-> TRUE]
    /\ UNCHANGED <<estimates, deleted, clock, workers, consumption>>

\* an item of a service is added: the form validates it with clean() and the
\* uniqueness check, then saves it
AddServiceItem(service, default, value) ==
    /\ ops < MaxItems
    /\ ops' = ops + 1
    /\ LET self == [id |-> Cardinality(pricelist.items) + 1, service |-> service,
                    default_price_list_item |-> default.id, value |-> value]
           valid == clean(pricelist, self) = "none" /\ validate_unique(pricelist, self)
       IN  /\ pricelist' = IF valid
                           THEN [pricelist EXCEPT !.items = @ \cup {self}]
                           ELSE pricelist
           /\ last' = [op |-> "add_item", arg |-> <<service, default.id>>,
                       ok |-> clean(pricelist, self) = "none"]
    /\ UNCHANGED <<estimates, deleted, clock, workers, consumption>>

GetPriceMap(resource, price_items) ==
    /\ last' = [op |-> "price_map",
                arg |-> <<resource, price_items,
                          get_price_map(pricelist, resource, price_items, Today(clock))>>,
                ok |-> TRUE]
    /\ UNCHANGED <<estimates, deleted, clock, workers, ops, consumption, pricelist>>

GetMonthlyCostEstimate(resource, price_items, used_items) ==
    /\ last' = [op |-> "monthly_cost",
                arg |-> <<resource, used_items,
                          get_price_map(pricelist, resource, price_items, Today(clock)),
                          get_monthly_cost_estimate(pricelist, resource, price_items,
                                                    used_items, Today(clock))>>,
                ok |-> TRUE]
    /\ UNCHANGED <<estimates, deleted, clock, workers, ops, consumption, pricelist>>

NextPrices ==
    \/ Advance
    \/ \E model \in ResourceModels, key \in ItemKeys, value \in HourlyRates :
          AddDefaultItem(model, key, value)
    \/ \E service \in PricedServices, default \in pricelist.defaults, value \in HourlyRates :
          AddServiceItem(service, default, value)
    \/ \E resource \in Resources :
          \E price_items \in Orders(price_items_of(pricelist, resource)) :
              GetPriceMap(resource, price_items)
    \/ \E resource \in Resources, used_items \in UsedItems :
          \E price_items \in Orders(price_items_of(pricelist, resource)) :
              GetMonthlyCostEstimate(resource, price_items, used_items)

\* price lists are filled and read as the months pass
SpecPrices == Init /\ [][NextPrices]_vars

-----------------------------------------------------------------------------
(* update_ancestors run by concurrent workers, one statement at a time:    *)
(* per parent get_or_create, leafs.add, the query of update_from_leaf and  *)
(* its save(update_fields=['total', 'consumed']).                          *)

\* the number of runs of update_ancestors the workers start
MaxWalks == 2

\* a worker outside update_ancestors; inside it: the estimate it runs for,
\* the parent it is at, that parent's estimate and the sums it computed
IdleWalker == [pc |-> "idle", id |-> Null, i |-> 0, parent_estimate |-> Null,
               total |-> 0, consumed |-> 0, ok |-> TRUE]

\* the automatic estimate of a resource for the first month, priced
PricedLeaf(resource, total) ==
    [NewRow({}, resource, Now(1).month, Now(1).year, FALSE, 0) EXCEPT
        !.total = total, !.consumed = total \div 4]

\* both resources have their estimate of the month, no ancestor has one yet
InitWalkers ==
    /\ \E t1, t2 \in Costs :
           estimates = {PricedLeaf("r1", t1), PricedLeaf("r2", t2)}
    /\ deleted = {}
    /\ clock = 1
    /\ workers = [w \in Workers |-> IdleWalker]
    /\ last = [op |-> "init", arg |-> None, ok |-> TRUE]
    /\ ops = 0
    /\ consumption = {}
    /\ pricelist = NoPrices

WalkerBegin(w, id) ==
    /\ ops < MaxWalks
    /\ ops' = ops + 1
    /\ workers[w].pc = "idle"
    /\ workers' = [workers EXCEPT ![w] = [IdleWalker EXCEPT !.pc = "get", !.id = id, !.i = 1]]
    /\ last' = [op |-> "begin", arg |-> <<w, id>>, ok |-> TRUE]
    /\ UNCHANGED <<estimates, deleted, clock, consumption, pricelist>>

\* parent_estimate, created = objects.get_or_create(...)
WalkerGet(w) ==
    /\ workers[w].pc = "get"
    /\ LET me == workers[w]
           self == Row(estimates, me.id)
           parents == get_ancestors(self.object_id)
           g == get_or_create(estimates, parents[me.i], self.month, self.year, BOOLEAN)
       IN  IF g.error # "none"
           THEN /\ workers' = [workers EXCEPT ![w].pc = "idle", ![w].ok = FALSE]
                /\ UNCHANGED estimates
           ELSE /\ workers' = [workers EXCEPT ![w].pc = "add", ![w].parent_estimate = g.id]
                /\ estimates' = g.rows
    /\ last' = [op |-> "get_or_create", arg |-> <<w>>, ok |-> TRUE]
    /\ UNCHANGED <<deleted, clock, ops, consumption, pricelist>>

\* if self.is_leaf and not parent_estimate.leafs.filter(id=self.id):
\*     parent_estimate.leafs.add(self)
WalkerAdd(w) ==
    /\ workers[w].pc = "add"
    /\ LET me == workers[w]
           self == Row(estimates, me.id)
           parent_estimate == Row(estimates, me.parent_estimate)
       IN  estimates' = IF is_leaf(self) /\ me.id \notin parent_estimate.leafs
                        THEN Replace(estimates,
                                     [parent_estimate EXCEPT !.leafs = @ \cup {me.id}])
                        ELSE estimates
    /\ workers' = [workers EXCEPT ![w].pc = "read"]
    /\ last' = [op |-> "leafs.add", arg |-> <<w>>, ok |-> TRUE]
    /\ UNCHANGED <<deleted, clock, ops, consumption, pricelist>>

\* update_from_leaf: leaf_estimates = list(self.leafs.all()) and the sums
WalkerRead(w) ==
    /\ workers[w].pc = "read"
    /\ LET me == workers[w]
           parent_estimate == Row(estimates, me.parent_estimate)
           leaf_estimates == Leafs(estimates, parent_estimate)
       IN  workers' = [workers EXCEPT ![w].pc = "save",
                                      ![w].total = SumTotal(leaf_estimates),
                                      ![w].consumed = SumConsumed(leaf_estimates)]
    /\ last' = [op |-> "leafs.all", arg |-> <<w>>, ok |-> TRUE]
    /\ UNCHANGED <<estimates, deleted, clock, ops, consumption, pricelist>>

\* update_from_leaf: self.save(update_fields=['total', 'consumed']); then the
\* next parent
WalkerSave(w) ==
    /\ workers[w].pc = "save"
    /\ LET me == workers[w]
           self == Row(estimates, me.id)
           parent_estimate == Row(estimates, me.parent_estimate)
           done == me.i >= Len(get_ancestors(self.object_id))
       IN  /\ estimates' = Replace(estimates,
                                   [parent_estimate EXCEPT !.total = me.total,
                                                           !.consumed = me.consumed])
           /\ workers' = [workers EXCEPT ![w].pc = IF done THEN "idle" ELSE "get",
                                         ![w].i = me.i + 1]
    /\ last' = [op |-> "save", arg |-> <<w>>, ok |-> TRUE]
    /\ UNCHANGED <<deleted, clock, ops, consumption, pricelist>>

NextWalkers ==
    \/ \E w \in Workers, id \in Ids({r \in estimates : is_leaf(r)}) : WalkerBegin(w, id)
    \/ \E w \in Workers : WalkerGet(w)
    \/ \E w \in Workers : WalkerAdd(w)
    \/ \E w \in Workers : WalkerRead(w)
    \/ \E w \in Workers : WalkerSave(w)

\* update_ancestors run by two workers at once
SpecWalkers == InitWalkers /\ [][NextWalkers]_vars

-----------------------------------------------------------------------------
(* update_ancestors_for_resource, update_price_for_scope and              *)
(* update_from_leaf called for the scopes of the structure.                *)

\* the number of operations of a run over the scopes
MaxMoves == 4

Move == ops < MaxMoves /\ ops' = ops + 1

\* faulty variant: the manual estimates of the resource are taken as well
estimates_of_resource_all(rs, resource) == FilterScope(rs, resource)

\* cls.objects.filter(scope=resource, is_manually_input=False)
estimates_of_resource(rs, resource) ==
    {r \in FilterScope(rs, resource) : ~r.is_manually_input}

\* the loop of update_ancestors_for_resource over the estimates, in the order
\* the query returns them; an exception of update_ancestors ends it
RECURSIVE update_ancestors_for_resource(_, _, _)
update_ancestors_for_resource(rs, order, i) ==
    IF i > Len(order) THEN [rows |-> rs, ok |-> TRUE]
    ELSE LET u == update_ancestors(rs, order[i].id)
         IN  IF ~u.ok THEN u ELSE update_ancestors_for_resource(u.rows, order, i + 1)

\* faulty variant: the scopes above the scope are summed again as well
family_scope_with_ancestors(scope) ==
    {scope} \cup {s \in get_descendants(scope) : ~is_leaf_scope(s)}
            \cup SeqToSet(get_ancestors(scope))

\* [scope] + [s for s in scope.get_descendants() if not cls.is_leaf_scope(s)]
family_scope(scope) ==
    {scope} \cup {s \in get_descendants(scope) : ~is_leaf_scope(s)}

\* for estimate in ...: estimate.update_from_leaf()
RECURSIVE from_leaf_all(_, _)
from_leaf_all(rs, ids) ==
    IF ids = {} THEN rs
    ELSE LET id == CHOOSE x \in ids : TRUE
         IN  from_leaf_all(update_from_leaf(rs, id), ids \ {id})

\* cls.update_price_for_scope(scope); outcome, monthly_cost and now as in
\* update_price_for_resource
update_price_for_scope(rs, scope, outcome, monthly_cost, now) ==
    IF is_leaf_scope(scope)
    THEN update_price_for_resource(rs, scope, outcome, monthly_cost, now, FALSE)
    ELSE [rows |-> from_leaf_all(rs, Ids({r \in rs : /\ r.object_id \in family_scope(scope)
                                                     /\ ~r.is_manually_input})),
          ok |-> TRUE]

ScopeTick ==
    /\ clock < Len(Instants)
    /\ clock' = clock + 1
    /\ last' = [op |-> "tick", arg |-> None, ok |-> TRUE]
    /\ UNCHANGED <<estimates, deleted, workers, ops, consumption, pricelist>>

ScopePrice(resource, monthly_cost) ==
    /\ Move
    /\ resource \notin deleted
    /\ LET u == update_price_for_resource(estimates, resource, "cost", monthly_cost,
                                          Now(clock), FALSE)
       IN  /\ estimates' = u.rows
           /\ last' = [op |-> "update_price_for_resource",
                       arg |-> <<resource, "cost">>, ok |-> u.ok]
    /\ UNCHANGED <<deleted, clock, workers, consumption, pricelist>>

ScopeAncestors(resource, order) ==
    /\ Move
    /\ resource \notin deleted
    /\ LET u == update_ancestors_for_resource(estimates, order, 1)
       IN  /\ estimates' = u.rows
           /\ last' = [op |-> "update_ancestors_for_resource",
                       arg |-> <<resource>>, ok |-> u.ok]
    /\ UNCHANGED <<deleted, clock, workers, consumption, pricelist>>

ScopeUpdate(scope, outcome, monthly_cost) ==
    /\ Move
    /\ scope \notin deleted
    /\ LET u == update_price_for_scope(estimates, scope, outcome, monthly_cost, Now(clock))
       IN  /\ estimates' = u.rows
           /\ last' = [op |-> "update_price_for_scope",
                       arg |-> <<scope, outcome, monthly_cost>>, ok |-> u.ok]
    /\ UNCHANGED <<deleted, clock, workers, consumption, pricelist>>

ScopeManual(scope, period, total) ==
    /\ Move
    /\ scope \notin deleted
    /\ LET u == api_create(estimates, scope, period.month, period.year, total)
       IN  /\ estimates' = u.rows
           /\ last' = [op |-> "api_create",
                       arg |-> <<scope, period.year, period.month>>, ok |-> u.ok]
    /\ UNCHANGED <<deleted, clock, workers, consumption, pricelist>>

ScopeDeleteEstimates(resource) ==
    /\ Move
    /\ resource \notin deleted
    /\ estimates' = delete_estimates_for_resource(estimates, resource)
    /\ last' = [op |-> "delete_estimates_for_resource",
                arg |-> <<resource, Cardinality(FilterScope(estimates, resource))>>,
                ok |-> TRUE]
    /\ UNCHANGED <<deleted, clock, workers, consumption, pricelist>>

NextScopes ==
    \/ ScopeTick
    \/ \E resource \in Resources, monthly_cost \in Costs : ScopePrice(resource, monthly_cost)
    \/ \E resource \in Resources :
          \E order \in Orders(estimates_of_resource(estimates, resource)) :
              ScopeAncestors(resource, order)
    \/ \E scope \in Resources, outcome \in BackendOutcomes, monthly_cost \in Costs :
          ScopeUpdate(scope, outcome, monthly_cost)
    \/ \E scope \in Scopes \ Resources : ScopeUpdate(scope, "cost", 0)
    \/ \E scope \in Links \cup Resources, period \in Periods, total \in ManualTotals :
          ScopeManual(scope, period, total)
    \/ \E resource \in Resources : ScopeDeleteEstimates(resource)

\* the operations of the model class on the estimates of the scopes
SpecScopes == Init /\ [][NextScopes]_vars

\* a scope object and its descendants are deleted
ScopeDeleted(scope) ==
    /\ Move
    /\ scope \notin deleted
    /\ LET gone == ({scope} \cup get_descendants(scope)) \ deleted
       IN  /\ estimates' = scope_deletion(estimates, gone)
           /\ deleted' = deleted \cup gone
    /\ last' = [op |-> "scope_deletion", arg |-> <<scope>>, ok |-> TRUE]
    /\ UNCHANGED <<clock, workers, consumption, pricelist>>

\* estimate.update_from_leaf() for an estimate of the table
FromLeaf(id) ==
    /\ Move
    /\ estimates' = update_from_leaf(estimates, id)
    /\ last' = [op |-> "update_from_leaf", arg |-> <<id>>, ok |-> TRUE]
    /\ UNCHANGED <<deleted, clock, workers, consumption, pricelist>>

NextLeafs ==
    \/ \E resource \in Resources, monthly_cost \in Costs : ScopePrice(resource, monthly_cost)
    \/ \E resource \in Resources :
          \E order \in Orders(estimates_of_resource(estimates, resource)) :
              ScopeAncestors(resource, order)
    \/ \E resource \in Resources, period \in Periods, total \in ManualTotals :
          ScopeManual(resource, period, total)
    \/ \E scope \in Scopes : ScopeDeleted(scope)
    \/ \E id \in Ids(estimates) : FromLeaf(id)

\* update_from_leaf for any estimate, those of deleted scopes included
SpecLeafs == Init /\ [][NextLeafs]_vars

-----------------------------------------------------------------------------
(* Properties of update_configuration.                                     *)

\* the details of an estimate
DetailsOf(rs, id) == CHOOSE d \in rs : d.price_estimate = id

\* the last operation was a call of update_configuration with a
\* configuration other than the current one
Changed(l) == l.op = "update_configuration" /\ l.arg[2] # l.arg[3]

\* C18: an accepted update_configuration with a new configuration adds, for
\* every consumable of the previous configuration, its previous usage times
\* the whole minutes since last_update_time to consumed_before_update (other
\* entries stay as they were), then sets configuration to the new one and
\* last_update_time to now; {ram: 2048} held for 60 minutes adds 2048 * 60.
C18_ConsumptionAccrued ==
    [][(Changed(last') /\ last'.ok) =>
           LET old == DetailsOf(consumption, last'.arg[1])
               new == DetailsOf(consumption', last'.arg[1])
               now == UsageTimes[clock]
               elapsed == total_seconds(now, old.last_update_time)
               minutes == elapsed \div 60
           IN  /\ elapsed >= 0
               /\ Keys(new.consumed_before_update)
                      = Keys(old.consumed_before_update) \cup Keys(old.configuration)
               /\ \A k \in Keys(new.consumed_before_update) :
                      Get(new.consumed_before_update, k, 0)
                          = Get(old.consumed_before_update, k, 0)
                                + Get(old.configuration, k, 0) * minutes
               /\ (old.configuration = {<<"ram", 2048>>} /\ elapsed = 3600) =>
                      Get(new.consumed_before_update, "ram", 0)
                          = Get(old.consumed_before_update, "ram", 0) + 122880
               /\ new.configuration = last'.arg[3]
               /\ new.last_update_time = now
      ]_vars

\* {ram: 2048} was held for 60 minutes and then changed to {ram: 1024}
C18_Witness ==
    /\ Changed(last)
    /\ last.ok
    /\ last.arg[2] = {<<"ram", 2048>>}
    /\ last.arg[3] = {<<"ram", 1024>>}
    /\ clock = 2
    /\ \E d \in consumption :
           /\ d.configuration = {<<"ram", 1024>>}
           /\ d.consumed_before_update = {<<"ram", 2048 * 60>>}
           /\ d.last_update_time = UsageTimes[2]

\* C19: update_configuration with the current configuration changes nothing
\* (configuration, consumed_before_update and last_update_time stay) and
\* raises nothing, whatever the current time.
C19_SameConfigurationNoOp ==
    [][(last'.op = "update_configuration" /\ last'.arg[2] = last'.arg[3]) =>
           (last'.ok /\ consumption' = consumption)]_vars

\* the current configuration was given again in a later month than the
\* estimate's, after consumption had been recorded
C19_Witness ==
    /\ last.op = "update_configuration"
    /\ last.arg[2] = last.arg[3]
    /\ last.arg[2] # {}
    /\ last.ok
    /\ UsageTimes[clock].month # Row(estimates, last.arg[1]).month
    /\ DetailsOf(consumption, last.arg[1]).consumed_before_update # {}

\* C20: update_configuration with a changed configuration is rejected
\* whenever the current month and year are not the month and year of the
\* estimate the details belong to, and a rejected call leaves configuration,
\* consumed_before_update and last_update_time as they were.
C20_RejectedOutsideMonth ==
    [][Changed(last') =>
           /\ ~SameMonth(UsageTimes[clock], Row(estimates, last'.arg[1])) => ~last'.ok
           /\ ~last'.ok => consumption' = consumption
      ]_vars

\* C21: after any sequence of update_configuration calls the consumed
\* property returns, without an error, a value for every consumable of
\* configuration and of consumed_before_update: consumed_before_update[k]
\* plus the usage of k (0 when k is not configured) times the whole minutes
\* from last_update_time to the end of the estimate's month.  (Read here
\* once consumption has been recorded by an update.)
C21_ConsumedDefined ==
    (last.op = "consumed" /\
         DetailsOf(consumption, last.arg[1]).consumed_before_update # {}) =>
        LET self == DetailsOf(consumption, last.arg[1])
            estimate == Row(estimates, self.price_estimate)
            to_month_end == total_seconds(
                [year |-> estimate.year, month |-> estimate.month,
                 sec |-> DaysInMonth(estimate.year, estimate.month) * 86400 - 1],
                self.last_update_time)
        IN  /\ last.ok
            /\ Keys(last.arg[2])
                   = Keys(self.configuration) \cup Keys(self.consumed_before_update)
            /\ \A k \in Keys(last.arg[2]) :
                   Get(last.arg[2], k, 0)
                       = Get(self.consumed_before_update, k, 0)
                             + Get(self.configuration, k, 0) * TruncDiv(to_month_end, 60)

\* C22: after the creation and after every later save of a resource that is
\* registered for cost tracking there is an automatic estimate of the
\* resource for the current month with consumption details, and the
\* configuration of the details is what the resource's strategy reports for
\* the resource at that save.
C22_DetailsKeptUpToDate ==
    [][(last'.op = "resource_saved" /\ last'.arg[1] \in Registered) =>
           LET now == UsageTimes[clock]
               current == Filter(estimates', last'.arg[1], now.month, now.year, {FALSE})
           IN  /\ last'.ok
               /\ Cardinality(current) = 1
               /\ \A e \in current :
                      /\ Cardinality({d \in consumption' : d.price_estimate = e.id}) = 1
                      /\ \A d \in consumption' :
                             d.price_estimate = e.id => d.configuration = last'.arg[2]
      ]_vars

\* a resource created with {ram: 2048} was saved 60 minutes later with
\* {ram: 1024}
C22_Witness ==
    /\ last.op = "resource_saved"
    /\ last.ok
    /\ last.arg[1] \in Registered
    /\ last.arg[2] = {<<"ram", 1024>>}
    /\ \E d \in consumption :
           /\ d.configuration = {<<"ram", 1024>>}
           /\ d.consumed_before_update = {<<"ram", 2048 * 60>>}
           /\ Row(estimates, d.price_estimate).object_id = last.arg[1]

\* C23: a call of update_configuration that finishes when every call that
\* arrived before it has finished leaves the details as the call applied to
\* the details those earlier calls left: the stored configuration,
\* consumed_before_update and last_update_time are those of the calls applied
\* one after the other in the order of arrival.
C23_AppliedInArrivalOrder ==
    [][\A w \in Workers :
           (/\ workers[w].pc = "loaded"
            /\ workers'[w].pc = "idle"
            /\ \A v \in Workers \ {w} :
                   IF workers[v].pc = "idle"
                   THEN workers[v].arrived < workers[w].arrived
                   ELSE workers[v].arrived > workers[w].arrived) =>
               \A stored \in consumption :
                   LET u == update_configuration(estimates, stored,
                                                 workers[w].new_configuration,
                                                 UsageTimes[clock])
                   IN  consumption' = (consumption \ {stored}) \cup {u.details}
      ]_vars

\* C28: with a clock that never goes back and usages that are not negative,
\* over any sequence of update_configuration calls no entry of
\* consumed_before_update decreases, no key leaves consumed_before_update,
\* and last_update_time never decreases.
C28_ConsumedOnlyGrows ==
    [][\A old \in consumption :
           \E new \in consumption' :
               /\ new.price_estimate = old.price_estimate
               /\ Keys(old.consumed_before_update) \subseteq Keys(new.consumed_before_update)
               /\ \A k \in Keys(old.consumed_before_update) :
                      Get(new.consumed_before_update, k, 0)
                          >= Get(old.consumed_before_update, k, 0)
               /\ NotAfter(old.last_update_time, new.last_update_time)
      ]_vars

\* {ram: 2048} was held for 60 minutes, {ram: 1024} for 90 minutes after it,
\* and both consumptions are recorded
C28_Witness ==
    /\ Changed(last)
    /\ last.ok
    /\ clock = 3
    /\ last.arg[2] = {<<"ram", 1024>>}
    /\ \E d \in consumption :
           /\ d.consumed_before_update = {<<"ram", 2048 * 60 + 1024 * 90>>}
           /\ d.last_update_time = UsageTimes[3]

\* C29: the time since the last change counts in whole minutes, truncated
\* towards zero: an accepted change less than 60 seconds after the one before
\* adds nothing to any entry of consumed_before_update and still moves
\* last_update_time to now; a change after m minutes and s < 60 seconds adds
\* the usage of m minutes.
C29_WholeMinutes ==
    [][(Changed(last') /\ last'.ok) =>
           LET old == DetailsOf(consumption, last'.arg[1])
               new == DetailsOf(consumption', last'.arg[1])
               now == UsageTimes[clock]
               elapsed == total_seconds(now, old.last_update_time)
               s == elapsed % 60
               m == (elapsed - s) \div 60
           IN  /\ elapsed < 60 =>
                      /\ \A k \in Keys(new.consumed_before_update) :
                             Get(new.consumed_before_update, k, 0)
                                 = Get(old.consumed_before_update, k, 0)
                      /\ new.last_update_time = now
               /\ \A k \in Keys(old.configuration) :
                      Get(new.consumed_before_update, k, 0)
                              - Get(old.consumed_before_update, k, 0)
                          = Get(old.configuration, k, 0) * m
      ]_vars

\* {ram: 2048} was held for 150 minutes and 30 seconds, which count as 150
\* minutes, and {ram: 1024} for the 45 seconds after, which count as nothing
C29_Witness ==
    /\ Changed(last)
    /\ last.ok
    /\ clock = 4
    /\ last.arg[2] = {<<"ram", 1024>>}
    /\ \E d \in consumption :
           /\ d.consumed_before_update = {<<"ram", 2048 * 150>>}
           /\ d.last_update_time = UsageTimes[4]

-----------------------------------------------------------------------------
(* Properties of the price lists.                                          *)

\* x in 1/100000 to the nearest cent
ToCents(x) ==
    CHOOSE c \in {x \div 1000, x \div 1000 + 1} : 1000 * c - x <= 500 /\ x - 1000 * c < 500

\* the monthly rate that prices a default item for a resource: that of the
\* item of the resource's service for this default item when there is one,
\* the default item's otherwise
RateFor(default, resource) ==
    LET own == {i \in pricelist.items :
                   /\ i.service = service_of(resource)
                   /\ i.default_price_list_item = default.id}
        hourly == IF own # {} THEN (CHOOSE i \in own : TRUE).value ELSE default.value
    IN  ToCents(hourly * 24 * DaysInMonth(Today(clock).year, Today(clock).month))

\* C24: the price map of a resource has one entry per default item of the
\* resource's model, keyed by (item_type, key); the value is the monthly rate
\* (hourly rate x hours of the current month, to 2 decimals) of the item of
\* the resource's service for that default item when there is one, the
\* default item's otherwise.
C24_EntryPerDefaultItem ==
    last.op = "price_map" =>
        LET resource == last.arg[1]
            price_map == last.arg[3]
            price_items == price_items_of(pricelist, resource)
        IN  /\ Cardinality(price_map) = Cardinality(price_items)
            /\ \A item \in price_items :
                   <<<<item.item_type, item.key>>, RateFor(item, resource)>> \in price_map

\* what _get_price_map gives for any price list: one entry per (item_type,
\* key) of the default items of the resource's model, with the rate that
\* prices the default item of that key which the query returns last
PriceMapEntryPerItemKey ==
    last.op = "price_map" =>
        LET resource == last.arg[1]
            order == last.arg[2]
            price_map == last.arg[3]
            price_items == price_items_of(pricelist, resource)
            KeyOf(item) == <<item.item_type, item.key>>
        IN  /\ Keys(price_map) = {KeyOf(item) : item \in price_items}
            /\ Cardinality(price_map) = Cardinality(Keys(price_map))
            /\ \A i \in 1..Len(order) :
                   (\A j \in (i + 1)..Len(order) : KeyOf(order[j]) # KeyOf(order[i])) =>
                       <<KeyOf(order[i]), RateFor(order[i], resource)>> \in price_map

\* in a month of 31 days the price map of r1 has 10.33 for the small flavor,
\* the rate 0.01389 of the item of r1's service, where the default item has
\* the rate 1.00000; the default item of the other model has no entry
PriceMapSubstituted ==
    /\ last.op = "price_map"
    /\ last.arg[1] = "r1"
    /\ last.arg[3] = {<<<<"flavor", "small">>, 1033>>}
    /\ \E default \in pricelist.defaults :
           /\ default.resource_content_type = "Instance"
           /\ default.value = 100000
           /\ \E i \in pricelist.items :
                  /\ i.service = "s1"
                  /\ i.default_price_list_item = default.id
                  /\ i.value = 1389

RECURSIVE SumPriced(_, _, _)
\* the sum of rate x quantity over the used items at the positions in S
SumPriced(price_map, used_items, S) ==
    IF S = {}
    THEN 0
    ELSE LET i == CHOOSE i \in S : TRUE
         IN  Get(price_map, <<used_items[i][1], used_items[i][2]>>, 0) * used_items[i][3]
                 + SumPriced(price_map, used_items, S \ {i})

\* C25: the monthly cost estimate is the sum of monthly rate x quantity over
\* the used items that have an entry in the price map; a used item without
\* an entry adds nothing and leaves the other items' contributions as they
\* are.
C25_MissingPriceAddsNothing ==
    last.op = "monthly_cost" =>
        LET used_items == last.arg[2]
            price_map == last.arg[3]
            priced == {i \in 1..Len(used_items) :
                          <<used_items[i][1], used_items[i][2]>> \in Keys(price_map)}
        IN  last.arg[4] = SumPriced(price_map, used_items, priced)

\* the large flavor has no price, the storage after it in the list has: the
\* cost is the storage's rate x 2.5
C25_Witness ==
    /\ last.op = "monthly_cost"
    /\ last.arg[2] = << <<"flavor", "large", 1000>>, <<"storage", "1 GB", 2500>> >>
    /\ <<"storage", "1 GB">> \in Keys(last.arg[3])
    /\ last.arg[4] = Get(last.arg[3], <<"storage", "1 GB">>, 0) * 2500
    /\ last.arg[4] > 0

\* C26: the validation of an item of a service fails when the service is
\* public and when the model of its default item is not one of the resource
\* models of the service; it passes only for a private service with a
\* matching model.
C26_CleanRejects ==
    last.op = "add_item" =>
        LET service == last.arg[1]
            default == CHOOSE d \in pricelist.defaults : d.id = last.arg[2]
        IN  last.ok <=> (/\ ~is_public_service(service)
                         /\ default.resource_content_type \in related_resources(service))

\* an item of the private service s2, which has volumes only, for a default
\* item of instances was rejected
C26_Witness ==
    /\ last.op = "add_item"
    /\ ~last.ok
    /\ last.arg[1] = "s2"
    /\ \E d \in pricelist.defaults :
           d.id = last.arg[2] /\ d.resource_content_type = "Instance"

-----------------------------------------------------------------------------
(* Manual estimates and the automatic computations.                        *)

\* C27: no automatic computation changes a manual estimate: over a run of
\* update_price_for_resource, of update_ancestors and of
\* delete_estimates_for_resource of another scope, every estimate with
\* is_manually_input = True stays in the table with the total and consumed it
\* had, a manual estimate of an ancestor scope without an automatic estimate
\* for the month included.
C27_ManualUntouched ==
    [][last'.op \in {"update_price_for_resource", "update_ancestors",
                     "delete_estimates_for_resource"} =>
           \A r \in estimates :
               (/\ r.is_manually_input
                /\ ~(last'.op = "delete_estimates_for_resource"
                        /\ r.object_id = last'.arg[1])) =>
                   \E after \in estimates' :
                       /\ after.id = r.id
                       /\ after.total = r.total
                       /\ after.consumed = r.consumed
      ]_vars

\* C30: two workers ran update_ancestors for the estimates of two resources
\* with the same ancestors, for the same month: under every interleaving,
\* once both have finished, the estimate of every shared ancestor has both
\* estimates among its leafs, and its total and consumed are the sums over
\* the two.
C30_ConcurrentAncestors ==
    (/\ \A w \in Workers : workers[w].pc = "idle" /\ workers[w].i > 0 /\ workers[w].ok
     /\ workers[1].id # workers[2].id) =>
        LET one == Row(estimates, workers[1].id)
            two == Row(estimates, workers[2].id)
        IN  \A parent \in SeqToSet(get_ancestors(one.object_id))
                              \cap SeqToSet(get_ancestors(two.object_id)) :
                \A parent_estimate \in Filter(estimates, parent, one.month, one.year, BOOLEAN) :
                    /\ {one.id, two.id} \subseteq parent_estimate.leafs
                    /\ parent_estimate.total = one.total + two.total
                    /\ parent_estimate.consumed = one.consumed + two.consumed

-----------------------------------------------------------------------------
(* Further properties of the estimates.                                    *)

\* C31: every automatic estimate of a resource that update_price_for_resource
\* wrote has 0 <= consumed <= total, for every creation time not later than
\* now and every pair of creation month and current month, a creation month
\* shorter than the current one included, the monthly cost not being negative.
C31_ConsumedWithinTotal ==
    \A r \in estimates :
        (~r.is_manually_input /\ is_leaf(r)) => (0 <= r.consumed /\ r.consumed <= r.total)

\* every member of the leafs of an estimate that is not a leaf is one row of
\* the table, the estimate of a resource below the owner's scope, for the
\* owner's month and year
LeafsSound(rs) ==
    \A e \in rs :
        ~is_leaf(e) =>
            \A id \in e.leafs :
                /\ Cardinality({m \in rs : m.id = id}) = 1
                /\ \A m \in rs :
                       m.id = id =>
                           /\ is_leaf(m)
                           /\ m.month = e.month
                           /\ m.year = e.year
                           /\ m.object_id \in get_descendants(e.object_id)

\* the leafs an estimate had in rs
LeafsBefore(rs, id) == IF id \in Ids(rs) THEN Row(rs, id).leafs ELSE {}

\* the scope an estimate was created for: the first part of its key
CreatedFor(row) == row.id[1]

\* C32, with the estimates that outlive their resource: each member of the
\* leafs of an estimate created for an aggregate scope is one row of the
\* table, created for a resource below that scope, for the owner's month and
\* year; it is attached to the resource, or its link is null and the resource
\* is deleted; update_ancestors_for_resource links only automatic estimates
\* of the resource.
C32_LeafsOfResources ==
    [][/\ \A e \in estimates' :
              ~is_leaf_scope(CreatedFor(e)) =>
                  \A id \in e.leafs :
                      /\ Cardinality({m \in estimates' : m.id = id}) = 1
                      /\ \A m \in estimates' :
                             m.id = id =>
                                 /\ is_leaf_scope(CreatedFor(m))
                                 /\ m.object_id \in {CreatedFor(m), Null}
                                 /\ m.object_id = Null => CreatedFor(m) \in deleted'
                                 /\ m.month = e.month
                                 /\ m.year = e.year
                                 /\ CreatedFor(m) \in get_descendants(CreatedFor(e))
       /\ last'.op = "update_ancestors_for_resource" =>
              \A e \in estimates' :
                  \A id \in e.leafs \ LeafsBefore(estimates, e.id) :
                      LET m == Row(estimates', id)
                      IN  /\ ~m.is_manually_input
                          /\ is_leaf(m)
                          /\ m.object_id = last'.arg[1]
      ]_vars

\* a resource was deleted, and the estimate kept for it, its link null, is
\* still among the leafs of the estimate of its link, which was linked to it
\* by update_ancestors_for_resource
C32_Retained ==
    /\ last.op = "scope_deletion"
    /\ \E e \in estimates :
           /\ e.object_id = "l1"
           /\ e.total > 0
           /\ \E m \in estimates :
                  /\ m.id \in e.leafs
                  /\ m.object_id = Null
                  /\ ~m.is_manually_input
                  /\ m.total = e.total

\* C32: in every reachable state each member of the leafs of an estimate that
\* is not a leaf is an estimate of a resource, has the owner's month and
\* year, belongs to a resource that is a descendant of the owner's scope and
\* appears once; update_ancestors_for_resource links only automatic
\* estimates of the resource.
C32_LeafsMembers ==
    [][/\ LeafsSound(estimates')
       /\ last'.op = "update_ancestors_for_resource" =>
              \A e \in estimates' :
                  \A id \in e.leafs \ LeafsBefore(estimates, e.id) :
                      LET m == Row(estimates', id)
                      IN  /\ ~m.is_manually_input
                          /\ is_leaf(m)
                          /\ m.object_id = last'.arg[1]
      ]_vars

\* a resource has a manual and an automatic estimate for a month, and after
\* update_ancestors_for_resource the customer's estimate of the month has the
\* automatic one as its only leaf
LinkedAutomaticOnly ==
    /\ last.op = "update_ancestors_for_resource"
    /\ last.ok
    /\ \E period \in Periods :
           /\ Cardinality(Filter(estimates, last.arg[1], period.month, period.year,
                                 BOOLEAN)) = 2
           /\ \E e \in Filter(estimates, "c1", period.month, period.year, {FALSE}) :
                  e.leafs = Ids(Filter(estimates, last.arg[1], period.month, period.year,
                                       {FALSE}))

\* the automatic leaf estimates of a month below a customer
LeavesOf(rs, customer, period) ==
    {r \in rs : /\ is_leaf(r)
                /\ ~r.is_manually_input
                /\ r.month = period.month
                /\ r.year = period.year
                /\ r.object_id \in get_descendants(customer)}

\* the automatic estimates of a month of the scopes of one model below a customer
AutomaticOf(rs, customer, model, period) ==
    {r \in rs : /\ r.object_id # Null
                /\ r.object_id \in get_descendants(customer)
                /\ r.content_type = model
                /\ ~r.is_manually_input
                /\ r.month = period.month
                /\ r.year = period.year}

\* every automatic leaf estimate of the month below the customer is linked
\* to the customer's estimate of the month
AllPropagated(rs, customer, period) ==
    /\ LeavesOf(rs, customer, period) # {}
    /\ \E e \in Filter(rs, customer, period.month, period.year, {FALSE}) :
           Ids(LeavesOf(rs, customer, period)) \subseteq e.leafs

Dropped(self) == Keys(self.consumed_before_update) \ Keys(self.configuration)

\* what C34 says of the entry itself: a consumable that leaves the
\* configuration has an entry in consumed_before_update, and while it stays
\* out of the configuration the entry does not change
DroppedEntryKept ==
    [][\A new \in consumption' :
           LET old == DetailsOf(consumption, new.price_estimate)
           IN  \A k \in (Keys(old.configuration) \cup Keys(old.consumed_before_update))
                          \ Keys(new.configuration) :
                   /\ k \in Keys(new.consumed_before_update)
                   /\ k \in Dropped(old) =>
                          Get(new.consumed_before_update, k, 0)
                              = Get(old.consumed_before_update, k, 0)
      ]_vars

\* C34: a consumable that update_configuration drops from the configuration
\* keeps its entry in consumed_before_update, and from then on, until it is
\* in a configuration again, the entry does not change and the consumed
\* property gives this entry as the value of the consumable.
C34_DroppedStopsAccruing ==
    [][\A new \in consumption' :
           LET old == DetailsOf(consumption, new.price_estimate)
               read == consumed(estimates', new)
           IN  \A k \in (Keys(old.configuration) \cup Keys(old.consumed_before_update))
                          \ Keys(new.configuration) :
                   /\ k \in Keys(new.consumed_before_update)
                   /\ k \in Dropped(old) =>
                          Get(new.consumed_before_update, k, 0)
                              = Get(old.consumed_before_update, k, 0)
                   /\ read.error = "none"
                   /\ Get(read.value, k, 0) = Get(new.consumed_before_update, k, 0)
      ]_vars

\* the same with the read left out when it raises
DroppedValueWhenRead ==
    [][\A new \in consumption' :
           LET read == consumed(estimates', new)
           IN  read.error = "none" =>
                   \A k \in Dropped(new) :
                       Get(read.value, k, 0) = Get(new.consumed_before_update, k, 0)
      ]_vars

\* date - relativedelta(months=+1) with the day and the time of day: the day
\* is the day of `date`, or the last day of the month before if that month
\* is shorter
minus_month(date) ==
    LET p == PreviousMonth(date)
        day == date.sec \div 86400
        last_day == DaysInMonth(p.year, p.month) - 1
    IN  [year |-> p.year, month |-> p.month,
         sec |-> (IF day > last_day THEN last_day ELSE day) * 86400 + (date.sec % 86400)]

\* the dates the while loop of update_price_for_resource takes, from `date` on
RECURSIVE walk_back(_, _)
walk_back(date, created) ==
    IF date.month = created.month /\ date.year = created.year THEN <<>>
    ELSE <<date>> \o walk_back(minus_month(date), created)

\* the months from January of the year 0 to the month of a date
MonthNumber(date) == date.year * 12 + date.month

\* C35: for a resource created not later than now,
\* update_price_for_resource with back_propagate_price = True comes to an
\* end (with no walk when now is in the creation month): the walk back from the month before now takes one step for each
\* month strictly between the creation month and the current month, in
\* descending order, across the turn of the year and from a 31st, and gives
\* the resource an estimate for each of these months.
C35_WalkReachesCreation ==
    [][(/\ last'.op = "update_price_for_resource"
        /\ last'.arg[2] = "cost"
        /\ last'.arg[4]) =>
           LET resource == last'.arg[1]
               created == Created(resource)
               now == Today(clock)
               between == MonthNumber(now) - MonthNumber(created) - 1
               walk == walk_back(minus_month(now), created)
               calls == estimate_calls(resource, last'.arg[3], now, TRUE)
           IN  IF SameMonth(created, now) THEN last'.ok /\ Len(calls) = 1 ELSE
               /\ last'.ok
               /\ between >= 0
               /\ Len(walk) = between
               /\ Len(calls) = 2 + between
               /\ \A i \in 1..between :
                      /\ MonthNumber(walk[i]) = MonthNumber(now) - i
                      /\ calls[2 + i].month = walk[i].month
                      /\ calls[2 + i].year = walk[i].year
                      /\ Filter(estimates', resource, walk[i].month, walk[i].year,
                                {FALSE}) # {}
      ]_vars

\* a resource created in November 2015 was priced on 2016-03-31 and has an
\* estimate with the monthly cost for December, January and February
C35_Witness ==
    /\ last.op = "update_price_for_resource"
    /\ last.ok
    /\ last.arg[1] = "r3"
    /\ last.arg[2] = "cost"
    /\ last.arg[4]
    /\ Today(clock).month = 3
    /\ Today(clock).sec \div 86400 = 30
    /\ minus_month(Today(clock)).sec \div 86400 = 28
    /\ \A period \in {[year |-> 2015, month |-> 12], [year |-> 2016, month |-> 1],
                       [year |-> 2016, month |-> 2]} :
           \E e \in Filter(estimates, "r3", period.month, period.year, {FALSE}) :
               e.total = last.arg[3]

\* C36: update_from_leaf leaves the total and the consumed of an estimate
\* that belongs to a resource as they are, also those of the estimate kept
\* for a resource that has been deleted; an estimate of an aggregate scope
\* gets the sums of its leafs, and no other estimate changes.
C36_FromLeafKeepsLeafEstimates ==
    [][last'.op = "update_from_leaf" =>
           LET id == last'.arg[1]
               old == Row(estimates, id)
               new == Row(estimates', id)
           IN  /\ Ids(estimates') = Ids(estimates)
               /\ \A r \in estimates : r.id # id => r \in estimates'
               /\ IF is_leaf_scope(CreatedFor(old))
                  THEN new.total = old.total /\ new.consumed = old.consumed
                  ELSE /\ new.total = SumTotal(Leafs(estimates, old))
                       /\ new.consumed = SumConsumed(Leafs(estimates, old))
      ]_vars

\* the same for the estimates that are attached to a scope
FromLeafOfAttached ==
    [][(last'.op = "update_from_leaf" /\ Row(estimates, last'.arg[1]).object_id # Null) =>
           LET id == last'.arg[1]
               old == Row(estimates, id)
               new == Row(estimates', id)
           IN  /\ Ids(estimates') = Ids(estimates)
               /\ \A r \in estimates : r.id # id => r \in estimates'
               /\ IF is_leaf_scope(CreatedFor(old))
                  THEN new.total = old.total /\ new.consumed = old.consumed
                  ELSE /\ new.total = SumTotal(Leafs(estimates, old))
                       /\ new.consumed = SumConsumed(Leafs(estimates, old))
      ]_vars

\* C37: update_price_for_scope of a resource does what
\* update_price_for_resource does for it; for any other scope it gives each
\* automatic estimate of the scope and of its descendants that are not
\* resources the sums of its leafs, and every other estimate (of a resource,
\* of an ancestor of the scope, manual) and the set of rows stay as they are.
C37_ScopeUpdateFrame ==
    [][last'.op = "update_price_for_scope" =>
           LET scope == last'.arg[1]
               priced == update_price_for_resource(estimates, scope, last'.arg[2],
                                                   last'.arg[3], Now(clock), FALSE)
           IN  IF is_leaf_scope(scope)
               THEN estimates' = priced.rows /\ last'.ok = priced.ok
               ELSE /\ last'.ok
                    /\ Ids(estimates') = Ids(estimates)
                    /\ \A r \in estimates :
                           LET new == Row(estimates', r.id)
                           IN  IF /\ ~r.is_manually_input
                                  /\ \/ r.object_id = scope
                                     \/ /\ r.object_id \in get_descendants(scope)
                                        /\ ~is_leaf_scope(r.object_id)
                               THEN new = [r EXCEPT
                                              !.total = SumTotal(Leafs(estimates, r)),
                                              !.consumed = SumConsumed(Leafs(estimates, r))]
                               ELSE new = r
      ]_vars

\* update_price_for_scope of the service has brought the estimates of the
\* service and of its link up to the new total of a resource, and the
\* estimate of the customer still has the total from before
C37_Witness ==
    /\ last.op = "update_price_for_scope"
    /\ last.arg[1] = "s1"
    /\ \E period \in Periods :
           /\ \E e \in Filter(estimates, "s1", period.month, period.year, {FALSE}) :
                  /\ e.total > 0
                  /\ e.total = SumTotal(Leafs(estimates, e))
                  /\ \E l \in Filter(estimates, "l1", period.month, period.year, {FALSE}) :
                         l.total = e.total
                  /\ \E c \in Filter(estimates, "c1", period.month, period.year, {FALSE}) :
                         /\ c.leafs = e.leafs
                         /\ c.total # e.total

====
